---- MODULE Spec2Model ----
(***************************************************************************)
(* A model of the aa_dauditor core: the severity gate, the suppression     *)
(* stage and the effective-background resolver.  Each component has its    *)
(* own specification (SpecPolicy, SpecSupp, SpecBg, ...); the variables of *)
(* the other components stay at their idle values.                         *)
(***************************************************************************)
EXTENDS Integers, Sequences, FiniteSets, TLC

VARIABLES
    pc,             \* the position of the component under check
    result,         \* what the called function returned, or NotCalled
    findings,       \* Finding[]: the findings handed to the stage under check
    failOn,         \* Severity[] of shouldFailBuild, as the set it is turned into
    suppressions,   \* Suppression[] handed to applySuppressions
    now,            \* the `now` argument of applySuppressions (a Date)
    target,         \* the NormalizedTarget handed to the resolver
    subject,        \* the index in target.nodes of the resolver's `node` argument
    current,        \* findNearestBackground: the loop variable `current`
    stood,          \* findNearestBackground: the nodes `current` has already been
    context,        \* the RuleEvaluationContext `ctx` of a rule, but for its target
    payload,        \* the FigmaTargetPayload handed to normalizeTarget
    screenshot      \* the screenshot of the payload: bytes, or a decoded raster

vars ==
    <<pc, result, findings, failOn, suppressions, now, target, subject, current, stood,
      context, payload, screenshot>>

(***************************************************************************)
(* Bounds of the model.                                                    *)
(***************************************************************************)
MaxFindings == 2
MaxSuppressions == 2

NotCalled == [kind |-> "not-called"]

\* All sequences over S of length 0..n.
SeqUpTo(S, n) == UNION {[1..k -> S] : k \in 0..n}

(***************************************************************************)
(* core/types: Finding, Severity, Suppression.                             *)
(***************************************************************************)
Severities == {"blocker", "critical", "major", "minor"}
Statuses == {"failed", "needs-manual-review"}

\* An absent optional field (undefined in the source).
Undefined == [kind |-> "undefined"]

\* JavaScript truthiness of an optional object field.
Truthy(v) == v.kind # "undefined"

(***************************************************************************)
(* severity/policy.ts                                                      *)
(***************************************************************************)
ShouldFailBuildCountingSuppressed(fs, failOnSet) ==
    \E i \in DOMAIN fs :
        /\ fs[i].status = "failed"
        /\ fs[i].severity \in failOnSet

\* findings.some(f => f.status === "failed" && !f.suppressed && gate.has(f.severity))
shouldFailBuild(fs, failOnSet) ==
    \E i \in DOMAIN fs :
        /\ fs[i].status = "failed"
        /\ ~Truthy(fs[i].suppressed)
        /\ fs[i].severity \in failOnSet

(***************************************************************************)
(* Strings of the suppression file are sequences of characters; dates are  *)
(* what `new Date(string)` makes of them.                                  *)
(***************************************************************************)
Whitespace == {" ", "\t"}

RECURSIVE TrimStart(_)
TrimStart(s) ==
    IF s # <<>> /\ Head(s) \in Whitespace THEN TrimStart(Tail(s)) ELSE s

RECURSIVE TrimEnd(_)
TrimEnd(s) ==
    IF s # <<>> /\ s[Len(s)] \in Whitespace
    THEN TrimEnd(SubSeq(s, 1, Len(s) - 1))
    ELSE s

\* String.prototype.trim
Trim(s) == TrimEnd(TrimStart(s))

InvalidDate == [valid |-> FALSE]

\* new Date(string): the time value in days since 2000-01-01, or an Invalid Date.
NewDate(str) ==
    CASE str = "2025-01-01" -> [valid |-> TRUE, time |-> 9132]
      [] str = "2026-02-09" -> [valid |-> TRUE, time |-> 9536]
      [] str = "2027-01-01" -> [valid |-> TRUE, time |-> 9862]
      [] OTHER -> InvalidDate

\* Date.prototype.toISOString of a valid Date.
ToISOString(d) ==
    CASE d.time = 9132 -> "2025-01-01T00:00:00.000Z"
      [] d.time = 9536 -> "2026-02-09T00:00:00.000Z"
      [] d.time = 9862 -> "2027-01-01T00:00:00.000Z"

(***************************************************************************)
(* suppressions/apply.ts                                                   *)
(***************************************************************************)
\* The filter callback of `active`: the warning it pushes for suppression idx
\* (0-based, as in the message), or Undefined when the suppression is kept.
FilterWarningNoExpiryCheck(s, idx, nowDate) ==
    IF Trim(s.reason) = <<>>
    THEN [kind |-> "reason-empty", idx |-> idx]
    ELSE IF ~NewDate(s.expiresOn).valid
    THEN [kind |-> "invalid-expiresOn", ruleId |-> s.ruleId, targetId |-> s.targetId]
    ELSE Undefined

FilterWarning(s, idx, nowDate) ==
    IF Trim(s.reason) = <<>>
    THEN [kind |-> "reason-empty", idx |-> idx]
    ELSE IF ~NewDate(s.expiresOn).valid
    THEN [kind |-> "invalid-expiresOn", ruleId |-> s.ruleId, targetId |-> s.targetId]
    ELSE IF NewDate(s.expiresOn).time < nowDate.time
    THEN [kind |-> "expired", ruleId |-> s.ruleId, targetId |-> s.targetId,
          expiresOn |-> s.expiresOn]
    ELSE Undefined

\* suppressions.filter(...): the kept suppressions and the warnings pushed, both
\* in list order.
RECURSIVE FilterActive(_, _, _, _)
FilterActive(sups, i, nowDate, acc) ==
    IF i > Len(sups) THEN acc
    ELSE LET w == FilterWarning(sups[i], i - 1, nowDate)
         IN  FilterActive(sups, i + 1, nowDate,
                 IF Truthy(w)
                 THEN [acc EXCEPT !.warnings = Append(@, w)]
                 ELSE [acc EXCEPT !.active = Append(@, sups[i])])

SuppressionMatches(s, finding) ==
    /\ s.ruleId = finding.ruleId
    /\ (s.targetId = "*" \/ s.targetId = finding.targetRef.nodeId)

\* active.find(...): the first match in list order, or Undefined.
FindMatchLast(active, finding) ==
    LET hits == {i \in DOMAIN active : SuppressionMatches(active[i], finding)}
    IN  IF hits = {} THEN Undefined
        ELSE active[CHOOSE i \in hits : \A j \in hits : j <= i]

FindMatch(active, finding) ==
    LET hits == {i \in DOMAIN active : SuppressionMatches(active[i], finding)}
    IN  IF hits = {} THEN Undefined
        ELSE active[CHOOSE i \in hits : \A j \in hits : i <= j]

\* The callback of findings.map: the finding itself, or a copy with `suppressed`.
MapFinding(active, finding, nowDate) ==
    LET match == FindMatch(active, finding)
    IN  IF ~Truthy(match) THEN finding
        ELSE [finding EXCEPT !.suppressed =
                 [f \in DOMAIN match \cup {"matchedAt"} |->
                     IF f = "matchedAt" THEN ToISOString(nowDate) ELSE match[f]]]

applySuppressions(fs, sups, nowDate) ==
    LET filtered == FilterActive(sups, 1, nowDate, [active |-> <<>>, warnings |-> <<>>])
    IN  [findings |-> [i \in DOMAIN fs |-> MapFinding(filtered.active, fs[i], nowDate)],
         warnings |-> filtered.warnings]

(***************************************************************************)
(* core/color.ts.  A colour is [r, g, b, a] with a in thousandths          *)
(* (a = 1000 is alpha 1, a = 1 is alpha 0.001).                            *)
(***************************************************************************)
\* A NormalizedColor.
Rgba(r, g, b, a) == [kind |-> "color", r |-> r, g |-> g, b |-> b, a |-> a]

\* Math.round of num / den, for num >= 0 and den > 0.
MathRound(num, den) == (2 * num + den) \div (2 * den)

Clamp(value, min, max) ==
    IF value < min THEN min ELSE IF value > max THEN max ELSE value

FlattenAlphaSwapped(foreground, background) ==
    LET a == Clamp(foreground.a, 0, 1000)
    IN  IF a >= 1000 THEN foreground
        ELSE Rgba(MathRound(background.r * a + foreground.r * (1000 - a), 1000),
                  MathRound(background.g * a + foreground.g * (1000 - a), 1000),
                  MathRound(background.b * a + foreground.b * (1000 - a), 1000),
                  1000)

flattenAlpha(foreground, background) ==
    LET a == Clamp(foreground.a, 0, 1000)
    IN  IF a >= 1000 THEN foreground
        ELSE Rgba(MathRound(foreground.r * a + background.r * (1000 - a), 1000),
                  MathRound(foreground.g * a + background.g * (1000 - a), 1000),
                  MathRound(foreground.b * a + background.b * (1000 - a), 1000),
                  1000)

(***************************************************************************)
(* normalize/query.ts: the background resolver.  A node's id is its        *)
(* position in target.nodes; parentId 0 is an absent parentId.  Bounds are *)
(* in quarters of a unit, so that the tolerance 0.25 is 1.                 *)
(***************************************************************************)
Nodes(t) == t.nodes
NodeIds(t) == DOMAIN t.nodes

\* nodeMap(target).get(id)
MapHas(t, id) == id \in NodeIds(t)

\* isTextualNode
isTextualNode(n) == n.type = "TEXT" \/ n.hasText

FirstFill(colors) == IF colors = <<>> THEN Undefined ELSE colors[1]

\* colors.find(c => c.a > 0.001)
firstVisibleColor(colors) ==
    LET vis == {i \in DOMAIN colors : colors[i].a > 1}
    IN  IF vis = {} THEN Undefined
        ELSE colors[CHOOSE i \in vis : \A j \in vis : i <= j]

\* buildChildrenByParent(target).get(parentId): the children in target.nodes order
\* (<<>> stands for a missing entry).
ChildrenByParent(t, parentId) ==
    LET kids == {i \in NodeIds(t) : t.nodes[i].parentId = parentId}
        RECURSIVE Sorted(_)
        Sorted(S) == IF S = {} THEN <<>>
                     ELSE LET m == CHOOSE i \in S : \A j \in S : i <= j
                          IN  <<m>> \o Sorted(S \ {m})
    IN  IF parentId = 0 THEN <<>> ELSE Sorted(kids)

\* layerPathForNode: the names from the outermost ancestor down to the node.
RECURSIVE LayerPathWalk(_, _, _, _)
LayerPathWalk(t, cur, seen, path) ==
    IF cur = 0 \/ ~MapHas(t, cur) \/ cur \in seen THEN path
    ELSE LayerPathWalk(t, t.nodes[cur].parentId, seen \cup {cur},
                       <<t.nodes[cur].name>> \o path)

layerPathForNode(t, id) == LayerPathWalk(t, id, {}, <<>>)

\* rectCovers, epsilon = 0.25
rectCovers(bg, n) ==
    /\ bg.x <= n.x + 1
    /\ bg.y <= n.y + 1
    /\ bg.x + bg.width >= n.x + n.width - 1
    /\ bg.y + bg.height >= n.y + n.height - 1

\* resolveAccumulated of buildBoundsContext: the value returned and the map
\* accumulatedBoundsById after the call.
RECURSIVE resolveAccumulated(_, _, _, _)
resolveAccumulated(t, id, visiting, memo) ==
    LET n == t.nodes[id]
    IN  IF id \in DOMAIN memo THEN [value |-> memo[id], memo |-> memo]
        ELSE IF ~Truthy(n.bounds) \/ id \in visiting
        THEN [value |-> n.bounds, memo |-> memo]
        ELSE LET up == IF n.parentId # 0 /\ MapHas(t, n.parentId)
                       THEN resolveAccumulated(t, n.parentId, visiting \cup {id}, memo)
                       ELSE [value |-> Undefined, memo |-> memo]
                 resolved == IF Truthy(up.value)
                             THEN [kind |-> "bounds",
                                   x |-> up.value.x + n.bounds.x,
                                   y |-> up.value.y + n.bounds.y,
                                   width |-> n.bounds.width,
                                   height |-> n.bounds.height]
                             ELSE n.bounds
             IN  [value |-> resolved, memo |-> (id :> resolved) @@ up.memo]

RECURSIVE AccumulateFrom(_, _, _)
AccumulateFrom(t, id, memo) ==
    IF id > Len(t.nodes) THEN memo
    ELSE AccumulateFrom(t, id + 1, resolveAccumulated(t, id, {}, memo).memo)

\* buildBoundsContext
buildBoundsContext(t) ==
    [accumulatedBoundsById |-> AccumulateFrom(t, 1, <<>>),
     allowAccumulatedCoverage |-> t.contextSource = "metadata-fallback"]

BoundsCoverAlways(t, bgId, nodeId, ctx) == TRUE

\* boundsCover(backgroundNode, node, boundsContext)
boundsCover(t, bgId, nodeId, ctx) ==
    LET bg == t.nodes[bgId].bounds
        nb == t.nodes[nodeId].bounds
        acc == ctx.accumulatedBoundsById
    IN  IF ~Truthy(bg) \/ ~Truthy(nb) THEN TRUE
        ELSE IF rectCovers(bg, nb) THEN TRUE
        ELSE IF ~ctx.allowAccumulatedCoverage THEN FALSE
        ELSE IF bgId \notin DOMAIN acc \/ nodeId \notin DOMAIN acc THEN FALSE
        ELSE rectCovers(acc[bgId], acc[nodeId])

\* What a call that recurses without end produces: the engine's stack overflow.
RangeError == [kind |-> "RangeError"]

\* resolveCoveringFillInNode.  `stack` holds the nodes of the calls in progress:
\* the function is pure, so a call for a node already on the stack repeats the
\* call that made it, without end.
RECURSIVE resolveCoveringFillInNode(_, _, _, _, _)
RECURSIVE CoveringFillInChildren(_, _, _, _, _, _)
CoveringFillInChildren(t, children, i, subjectId, ctx, stack) ==
    IF i < 1 THEN Undefined
    ELSE LET resolved == resolveCoveringFillInNode(t, children[i], subjectId, ctx, stack)
         IN  IF Truthy(resolved) THEN resolved
             ELSE CoveringFillInChildren(t, children, i - 1, subjectId, ctx, stack)

resolveCoveringFillInNode(t, cur, subjectId, ctx, stack) ==
    IF cur \in stack THEN RangeError
    ELSE IF ~boundsCover(t, cur, subjectId, ctx) THEN Undefined
    ELSE LET children == ChildrenByParent(t, cur)
             below == CoveringFillInChildren(t, children, Len(children), subjectId,
                                             ctx, stack \cup {cur})
             fill == IF isTextualNode(t.nodes[cur]) THEN Undefined
                     ELSE firstVisibleColor(t.nodes[cur].fills)
         IN  IF Truthy(below) THEN below
             ELSE IF Truthy(fill)
             THEN [kind |-> "fill", color |-> fill, sourceNode |-> cur]
             ELSE Undefined

\* The loop of resolveSiblingOverlay over siblings[from], ..., siblings[1].
RECURSIVE SiblingScan(_, _, _, _, _)
SiblingScan(t, siblings, i, subjectId, ctx) ==
    IF i < 1 THEN Undefined
    ELSE LET resolved == resolveCoveringFillInNode(t, siblings[i], subjectId, ctx, {})
         IN  IF resolved = RangeError THEN RangeError
             ELSE IF Truthy(resolved)
             THEN [kind |-> "overlay", color |-> resolved.color,
                   path |-> layerPathForNode(t, resolved.sourceNode),
                   sourceNode |-> resolved.sourceNode]
             ELSE SiblingScan(t, siblings, i - 1, subjectId, ctx)

\* The position of id in siblings (1-based), 0 when it is not there.
FindIndex(siblings, id) ==
    LET at == {i \in DOMAIN siblings : siblings[i] = id}
    IN  IF at = {} THEN 0 ELSE CHOOSE i \in at : \A j \in at : i <= j

ResolveSiblingOverlayAnySide(t, cur, subjectId, ctx) ==
    LET siblings == ChildrenByParent(t, t.nodes[cur].parentId)
        others == SelectSeq(siblings, LAMBDA i : i # cur)
    IN  IF t.nodes[cur].parentId = 0 \/ FindIndex(siblings, cur) = 0 THEN Undefined
        ELSE SiblingScan(t, others, Len(others), subjectId, ctx)

resolveSiblingOverlay(t, cur, subjectId, ctx) ==
    LET siblings == ChildrenByParent(t, t.nodes[cur].parentId)
        currentIndex == FindIndex(siblings, cur)
    IN  IF t.nodes[cur].parentId = 0 \/ siblings = <<>> \/ currentIndex <= 1
        THEN Undefined
        ELSE SiblingScan(t, siblings, currentIndex - 1, subjectId, ctx)

\* The ancestor loop of resolveEffectiveBackground from `cur` on: the locals
\* overlays and skippedByCoverage when it ends, or RangeError.
RECURSIVE WalkAncestors(_, _, _, _, _, _, _)
WalkAncestors(t, subjectId, ctx, cur, visited, overlays, skippedByCoverage) ==
    LET parentId == t.nodes[cur].parentId
    IN  IF parentId = 0 \/ parentId \in visited \/ ~MapHas(t, parentId)
        THEN [kind |-> "locals", overlays |-> overlays,
              skippedByCoverage |-> skippedByCoverage]
        ELSE
        LET parent == t.nodes[parentId]
            siblingOverlay == resolveSiblingOverlay(t, cur, subjectId, ctx)
            pushed == IF Truthy(siblingOverlay)
                      THEN Append(overlays, siblingOverlay)
                      ELSE overlays
            backgroundFill == IF isTextualNode(parent) THEN Undefined
                              ELSE firstVisibleColor(parent.fills)
        IN  IF siblingOverlay = RangeError THEN RangeError
            ELSE IF ~Truthy(backgroundFill)
            THEN WalkAncestors(t, subjectId, ctx, parentId, visited \cup {parentId},
                               pushed, skippedByCoverage)
            ELSE IF ~boundsCover(t, parentId, subjectId, ctx)
            THEN WalkAncestors(t, subjectId, ctx, parentId, visited \cup {parentId},
                               pushed, skippedByCoverage + 1)
            ELSE WalkAncestors(t, subjectId, ctx, parentId, visited \cup {parentId},
                               Append(pushed,
                                      [kind |-> "overlay", color |-> backgroundFill,
                                       path |-> layerPathForNode(t, parentId),
                                       sourceNode |-> parentId]),
                               skippedByCoverage)

\* The two shapes of a BackgroundResolution the function returns.
Resolved(color, sourceLayerPath) ==
    [color |-> color, sourceLayerPath |-> sourceLayerPath]
Unresolved(reason) == [reason |-> reason]

ReasonNoCover == "Ancestor backgrounds exist but do not fully cover this layer bounds."
ReasonNoSolid ==
    "No solid ancestor background found (transparent/image/gradient context)."
ReasonTranslucent ==
    "Only translucent ancestor backgrounds found; effective backdrop remains dynamic."
FallbackPath == <<<<"[design-context-fallback] document background">>>>

NoOverlayResolutionReasonsSwapped(t, skippedByCoverage) ==
    IF Truthy(t.fallbackBackgroundColor)
    THEN Resolved(t.fallbackBackgroundColor, FallbackPath)
    ELSE IF skippedByCoverage > 0
    THEN Unresolved(ReasonNoSolid)
    ELSE Unresolved(ReasonNoCover)

\* The branch of resolveEffectiveBackground for overlays.length === 0.
NoOverlayResolution(t, skippedByCoverage) ==
    IF Truthy(t.fallbackBackgroundColor)
    THEN Resolved(t.fallbackBackgroundColor, FallbackPath)
    ELSE IF skippedByCoverage > 0
    THEN Unresolved(ReasonNoCover)
    ELSE Unresolved(ReasonNoSolid)

\* The scan for baseIndex, from the last overlay to the first: the position
\* (1-based) of the first one met with alpha >= 0.999, 0 for the source's -1.
BaseIndex(overlays) ==
    LET opaque == {i \in DOMAIN overlays : overlays[i].color.a >= 999}
    IN  IF opaque = {} THEN 0 ELSE CHOOSE i \in opaque : \A j \in opaque : j <= i

\* resolved after the flattening loop has handled overlays[i], ..., overlays[1].
RECURSIVE FlattenDown(_, _, _)
FlattenDown(overlays, i, resolved) ==
    IF i < 1 THEN resolved
    ELSE FlattenDown(overlays, i - 1, flattenAlpha(overlays[i].color, resolved))

OverlayResolutionWithFallback(t, overlays) ==
    LET baseIndex == BaseIndex(overlays)
    IN  IF baseIndex = 0
        THEN IF Truthy(t.fallbackBackgroundColor)
             THEN Resolved(t.fallbackBackgroundColor, FallbackPath)
             ELSE Unresolved(ReasonTranslucent)
        ELSE Resolved(FlattenDown(overlays, baseIndex - 1, overlays[baseIndex].color),
                      [i \in 1..baseIndex |-> overlays[i].path])

\* The branch of resolveEffectiveBackground for overlays.length > 0.
OverlayResolution(t, overlays) ==
    LET baseIndex == BaseIndex(overlays)
    IN  IF baseIndex = 0
        THEN Unresolved(ReasonTranslucent)
        ELSE Resolved(FlattenDown(overlays, baseIndex - 1, overlays[baseIndex].color),
                      [i \in 1..baseIndex |-> overlays[i].path])

\* resolveEffectiveBackground(target, node): what it returns, with its locals
\* overlays and skippedByCoverage as they are at the return; or RangeError.
resolveEffectiveBackground(t, subjectId) ==
    LET ctx == buildBoundsContext(t)
        walk == WalkAncestors(t, subjectId, ctx, subjectId, {}, <<>>, 0)
    IN  IF walk = RangeError THEN RangeError
        ELSE [returned |-> IF walk.overlays = <<>>
                           THEN NoOverlayResolution(t, walk.skippedByCoverage)
                           ELSE OverlayResolution(t, walk.overlays),
              kind |-> "returned",
              overlays |-> walk.overlays,
              skippedByCoverage |-> walk.skippedByCoverage]

(***************************************************************************)
(* The nodes the resolver is tried on.                                     *)
(***************************************************************************)
MaxNodes == 3

Rect(x, y, w, h) == [kind |-> "bounds", x |-> x, y |-> y, width |-> w, height |-> h]
White == Rgba(255, 255, 255, 1000)
Grey == Rgba(245, 245, 245, 1000)
Red == Rgba(200, 10, 10, 1000)
Dark == Rgba(40, 40, 40, 1000)
Tint == Rgba(0, 0, 0, 500)
Glass == Rgba(10, 20, 30, 999)
Clear == Rgba(10, 10, 10, 0)
Faint == Rgba(10, 10, 10, 1)
DocumentBackground == Rgba(248, 249, 250, 1000)

Big == Rect(0, 0, 160, 160)

Kind(type, hasText, bounds, fills) ==
    [type |-> type, hasText |-> hasText, bounds |-> bounds, fills |-> fills]

\* Frames: unpainted, opaque, almost opaque, and painted invisibly.
KFrame == Kind("FRAME", FALSE, Big, <<>>)
KWhite == Kind("FRAME", FALSE, Big, <<White>>)
KGlass == Kind("RECTANGLE", FALSE, Big, <<Glass>>)
KClear == Kind("FRAME", FALSE, Big, <<Clear, Faint>>)
\* A translucent layer whose bounds are not known.
KTint == Kind("FRAME", FALSE, Undefined, <<Tint>>)
\* A text layer, 8 x 8 units at (8, 8).
KLabel == Kind("TEXT", TRUE, Rect(32, 32, 32, 32), <<Dark>>)
\* Opaque rectangles around the label's place: one off by the tolerance, and one
\* off by more, which holds the label only when the label's bounds are relative
\* to it; its first paint is invisible.
KNear == Kind("RECTANGLE", FALSE, Rect(33, 32, 32, 32), <<Red>>)
KPanel == Kind("FRAME", FALSE, Rect(34, 32, 80, 80), <<Faint, Grey>>)

Palette == {KFrame, KWhite, KGlass, KClear, KTint, KLabel, KNear, KPanel}

NodeName(id) == "Layer " \o ToString(id)

MakeNode(id, parentId, kind) ==
    [id |-> id, parentId |-> parentId, name |-> NodeName(id), type |-> kind.type,
     hasText |-> kind.hasText, bounds |-> kind.bounds, fills |-> kind.fills]

MakeTarget(n, ps, ks, contextSource, fallback) ==
    [kind |-> "target",
     nodes |-> [id \in 1..n |-> MakeNode(id, ps[id], ks[id])],
     contextSource |-> contextSource,
     fallbackBackgroundColor |-> fallback]

\* The parentId assignments of n nodes.  In a forest in document order every
\* parent precedes its children; in a chain every node is the child of the one
\* before it; a malformed collection names any node, itself included, or a node
\* that is not there (n + 1).
ForestParentMaps(n) == {f \in [1..n -> 0..(n - 1)] : \A id \in 1..n : f[id] < id}
ChainParentMaps(n) == {[id \in 1..n |-> id - 1]}
AnyParentMaps(n) == [1..n -> 0..(n + 1)]

(***************************************************************************)
(* Idle values of the variables a specification does not use.              *)
(***************************************************************************)
NoTarget == [kind |-> "no-target"]

PolicyIdle == suppressions = <<>> /\ now = InvalidDate
GateIdle == findings = <<>> /\ failOn = {}
ResolverIdle == target = NoTarget /\ subject = 0 /\ current = 0 /\ stood = {}

NoCtx == [kind |-> "no-ctx"]
NoPayload == [kind |-> "no-payload"]
NoScreenshot == [kind |-> "no-screenshot"]

RulesIdle == context = NoCtx
IntakeIdle == payload = NoPayload /\ screenshot = NoScreenshot

(***************************************************************************)
(* The resolver specifications: resolveEffectiveBackground is called once  *)
(* on a target and a node of it.                                           *)
(***************************************************************************)
InitResolver(parentMaps, palette, contextSources, fallbacks) ==
    /\ pc = "ready"
    /\ result = NotCalled
    /\ \E n \in DOMAIN parentMaps :
          \E ps \in parentMaps[n] :
             \E ks \in [1..n -> palette], cs \in contextSources, fb \in fallbacks :
                target = MakeTarget(n, ps, ks, cs, fb)
    /\ subject \in NodeIds(target)
    /\ current = 0
    /\ stood = {}
    /\ GateIdle
    /\ PolicyIdle
    /\ RulesIdle
    /\ IntakeIdle

ResolveEffectiveBackgroundCall ==
    /\ pc = "ready"
    /\ result' = resolveEffectiveBackground(target, subject)
    /\ pc' = "resolve-done"
    /\ UNCHANGED <<findings, failOn, suppressions, now, target, subject, context, payload,
                   screenshot, current, stood>>

NextBg == ResolveEffectiveBackgroundCall

InitBg ==
    InitResolver([n \in 1..MaxNodes |-> ForestParentMaps(n)], Palette,
                 {"design-context", "metadata-fallback"},
                 {Undefined, DocumentBackground})

SpecBg == InitBg /\ [][NextBg]_vars

(***************************************************************************)
(* SpecSibling: deeper forests of few kinds of layer, for the part the     *)
(* siblings of the subject's branch play.                                  *)
(***************************************************************************)
MaxLayers == 4

InitSibling ==
    InitResolver([n \in 1..MaxLayers |-> ForestParentMaps(n)],
                 {KFrame, KWhite, KLabel, KNear},
                 {"design-context"}, {Undefined})

NextSibling == ResolveEffectiveBackgroundCall

SpecSibling == InitSibling /\ [][NextSibling]_vars

(***************************************************************************)
(* SpecStack: every node is the child of the one before it, so that the    *)
(* subject lies under a stack of up to MaxDepth - 1 ancestors.             *)
(***************************************************************************)
MaxDepth == 4

InitStack ==
    InitResolver([n \in 1..MaxDepth |-> ChainParentMaps(n)], Palette,
                 {"design-context", "metadata-fallback"}, {Undefined, DocumentBackground})

NextStack == ResolveEffectiveBackgroundCall

SpecStack == InitStack /\ [][NextStack]_vars

(***************************************************************************)
(* normalize/model.ts, findNearestBackground (the lookup of the non-text    *)
(* contrast rule), one action per test of its while condition.             *)
(***************************************************************************)
FindNearestBackgroundCall ==
    /\ pc = "ready"
    /\ current' = subject
    /\ stood' = {}
    /\ pc' = "fnb-loop"
    /\ UNCHANGED <<result, findings, failOn, suppressions, now, target, subject, context,
                   payload, screenshot>>

\* while (current?.parentId) { ... }: leave the loop, return the parent's first
\* fill, or step to the parent.
FindNearestBackgroundLoop ==
    /\ pc = "fnb-loop"
    /\ LET parentId == target.nodes[current].parentId
       IN  IF parentId = 0 \/ ~MapHas(target, parentId)
           THEN /\ pc' = "fnb-root"
                /\ UNCHANGED <<result, current, stood>>
           ELSE IF target.nodes[parentId].fills # <<>>
           THEN /\ result' = [kind |-> "returned",
                              returned |-> target.nodes[parentId].fills[1]]
                /\ pc' = "fnb-done"
                /\ UNCHANGED <<current, stood>>
           ELSE /\ current' = parentId
                /\ stood' = stood \cup {current}
                /\ UNCHANGED <<result, pc>>
    /\ UNCHANGED <<findings, failOn, suppressions, now, target, subject, context, payload, screenshot>>

\* After the loop: the first root frame with a fill, then white.
FindNearestBackgroundRoot ==
    /\ pc = "fnb-root"
    /\ LET roots == {i \in NodeIds(target) :
                        target.nodes[i].parentId = 0 /\ target.nodes[i].fills # <<>>}
       IN  result' = [kind |-> "returned",
                      returned |-> IF roots = {} THEN White
                                   ELSE target.nodes[CHOOSE i \in roots :
                                            \A j \in roots : i <= j].fills[1]]
    /\ pc' = "fnb-done"
    /\ UNCHANGED <<findings, failOn, suppressions, now, target, subject, context, payload,
                   screenshot, current, stood>>

(***************************************************************************)
(* SpecCycle: the resolver and findNearestBackground on node collections   *)
(* whose parentId may name any node (itself, a later node, a node that is  *)
(* its own descendant) or no node of the target.                           *)
(***************************************************************************)
InitCycle ==
    InitResolver([n \in 1..MaxNodes |-> AnyParentMaps(n)], {KFrame, KWhite, KLabel},
                 {"design-context", "metadata-fallback"}, {Undefined})

NextCycle ==
    \/ ResolveEffectiveBackgroundCall
    \/ FindNearestBackgroundCall
    \/ FindNearestBackgroundLoop
    \/ FindNearestBackgroundRoot

SpecCycle == InitCycle /\ [][NextCycle]_vars

\* C4: on every finite node collection, cyclic parentId links included, the
\* resolver returns a result (its sibling-subtree search does not recurse without
\* end) and the nearest-background lookup never stands on a node it has already
\* left (a revisited node ends the walk).
C4_TraversalsBreakOnRevisit ==
    /\ pc = "resolve-done" => result.kind = "returned"
    /\ pc = "fnb-loop" => current \notin stood

(***************************************************************************)
(* The layer tree as the claims about the resolver speak of it.  These     *)
(* definitions are read off the parentId links of a forest and the order   *)
(* of target.nodes; none of them uses the resolver's operators.            *)
(***************************************************************************)
Range(f) == {f[i] : i \in DOMAIN f}

\* The proper ancestors of a node, the parent first.
RECURSIVE AncestorsOf(_, _)
AncestorsOf(t, id) ==
    LET p == t.nodes[id].parentId
    IN  IF p = 0 THEN <<>> ELSE <<p>> \o AncestorsOf(t, p)

SubjectAncestors == AncestorsOf(target, subject)

\* The position of an ancestor of the subject: 1 for the parent.
AncestorPos(a) == CHOOSE i \in DOMAIN SubjectAncestors : SubjectAncestors[i] = a

\* The subject and its ancestors: the nodes the walk passes through.
Branch == {subject} \cup Range(SubjectAncestors)

SubtreeOf(t, root) == {i \in NodeIds(t) : root \in {i} \cup Range(AncestorsOf(t, i))}

\* The siblings of branch nodes that come before them in the child order, and
\* those that come after them, each with all its descendants.
BehindBranch ==
    UNION {SubtreeOf(target, s) : s \in {s \in NodeIds(target) :
              \E b \in Branch : /\ target.nodes[b].parentId # 0
                                /\ target.nodes[s].parentId = target.nodes[b].parentId
                                /\ s < b}}
InFrontOfBranch ==
    UNION {SubtreeOf(target, s) : s \in {s \in NodeIds(target) :
              \E b \in Branch : /\ target.nodes[b].parentId # 0
                                /\ target.nodes[s].parentId = target.nodes[b].parentId
                                /\ s > b}}

\* A node that paints something: not a text layer, one paint of alpha > 0.001.
Paints(n) == n.type # "TEXT" /\ ~n.hasText /\ \E i \in DOMAIN n.fills : n.fills[i].a > 1

\* The target with the paints of the nodes of S taken away.
WithoutFills(t, S) ==
    [t EXCEPT !.nodes = [i \in DOMAIN t.nodes |->
                            IF i \in S THEN [t.nodes[i] EXCEPT !.fills = <<>>]
                            ELSE t.nodes[i]]]

\* Rectangle bg holds rectangle n, give or take tol quarter units on each side.
Holds(bg, n, tol) ==
    /\ bg.x - tol <= n.x
    /\ bg.y - tol <= n.y
    /\ n.x + n.width <= bg.x + bg.width + tol
    /\ n.y + n.height <= bg.y + bg.height + tol

Returned == result.returned
HasColor == "color" \in DOMAIN Returned
Overlays == result.overlays

\* Where an overlay stands in the order from the subject outwards: the fill of
\* the ancestor at position k at 2k, a fill from behind a branch node whose
\* parent is that ancestor at 2k - 1.
OverlayRank(o) ==
    IF o.sourceNode \in Range(SubjectAncestors) THEN 2 * AncestorPos(o.sourceNode)
    ELSE LET above == {i \in DOMAIN SubjectAncestors :
                          SubjectAncestors[i] \in Range(AncestorsOf(target, o.sourceNode))}
         IN  2 * (CHOOSE i \in above : \A j \in above : i <= j) - 1

\* C5: only a sibling that precedes the branch node in the child order is a
\* candidate.  Every overlay comes from an ancestor or from the subtree of a
\* behind sibling; overlays are recorded from the subject outwards, the one from
\* behind a branch node before the fill of that node's parent; a behind sibling
\* that paints and holds the subject yields an overlay at that place; and the
\* nodes in front (later siblings and their descendants) change neither the
\* result nor appear in its source path.
C5_OnlyBehindSiblingsAreCandidates ==
    pc = "resolve-done" =>
        /\ \A k \in DOMAIN Overlays :
              Overlays[k].sourceNode \in Range(SubjectAncestors) \cup BehindBranch
        /\ \A k \in DOMAIN Overlays : \A m \in DOMAIN Overlays :
              k < m => OverlayRank(Overlays[k]) < OverlayRank(Overlays[m])
        /\ \A b \in Branch : \A s \in NodeIds(target) :
              (/\ target.nodes[b].parentId # 0
               /\ target.nodes[s].parentId = target.nodes[b].parentId
               /\ s < b
               /\ Paints(target.nodes[s])
               /\ Truthy(target.nodes[s].bounds) /\ Truthy(target.nodes[subject].bounds)
               /\ Holds(target.nodes[s].bounds, target.nodes[subject].bounds, 0))
              => \E k \in DOMAIN Overlays :
                    OverlayRank(Overlays[k]) = 2 * AncestorPos(target.nodes[b].parentId) - 1
        /\ HasColor =>
              \A k \in InFrontOfBranch : \A i \in DOMAIN Returned.sourceLayerPath :
                  target.nodes[k].name \notin Range(Returned.sourceLayerPath[i])
        /\ Returned =
              resolveEffectiveBackground(WithoutFills(target, InFrontOfBranch), subject).returned

\* A layer behind the subject's branch gives the colour, ahead of the parent's
\* own different fill, while a painted layer that holds the subject lies in front.
C5_Witness ==
    /\ pc = "resolve-done"
    /\ HasColor
    /\ Len(Overlays) = 2
    /\ Overlays[1].sourceNode \in BehindBranch
    /\ Overlays[2].sourceNode = target.nodes[subject].parentId
    /\ Overlays[1].color # Overlays[2].color
    /\ Returned.color = Overlays[1].color
    /\ \E k \in InFrontOfBranch :
          /\ Paints(target.nodes[k])
          /\ Holds(target.nodes[k].bounds, target.nodes[subject].bounds, 0)
          /\ target.nodes[k].fills[1] # Returned.color

\* The bounds of a node summed with the offsets of its ancestors, as far up as
\* the bounds are known.
RECURSIVE AbsoluteBounds(_, _)
AbsoluteBounds(t, id) ==
    LET n == t.nodes[id]
        up == IF n.parentId = 0 THEN Undefined ELSE AbsoluteBounds(t, n.parentId)
    IN  IF ~Truthy(n.bounds) THEN Undefined
        ELSE IF ~Truthy(up) THEN n.bounds
        ELSE [n.bounds EXCEPT !.x = @ + up.x, !.y = @ + up.y]

\* Node a has a rectangle, and it does not hold the subject's within the 0.25
\* tolerance: not as given and, in a metadata-fallback target, not in absolute
\* coordinates either.
FailsCoverage(a) ==
    /\ Truthy(target.nodes[a].bounds)
    /\ Truthy(target.nodes[subject].bounds)
    /\ ~Holds(target.nodes[a].bounds, target.nodes[subject].bounds, 1)
    /\ target.contextSource = "metadata-fallback" =>
          ~Holds(AbsoluteBounds(target, a), AbsoluteBounds(target, subject), 1)

\* The ancestors of the subject that paint.
FilledAncestors == {a \in Range(SubjectAncestors) : Paints(target.nodes[a])}

OnlyNonCoveringFilledAncestors ==
    /\ FilledAncestors # {}
    /\ \A a \in FilledAncestors : FailsCoverage(a)
    /\ ~Truthy(target.fallbackBackgroundColor)

\* C6 as stated: no ancestor that fails the coverage test is an overlay, and
\* when every painting ancestor fails it and no fallback is set, the result is
\* the coverage-failure reason without a colour.
C6_NonCoveringAncestorsYieldCoverageReason ==
    pc = "resolve-done" =>
        /\ \A a \in Range(SubjectAncestors) :
              FailsCoverage(a) => \A k \in DOMAIN Overlays : Overlays[k].sourceNode # a
        /\ OnlyNonCoveringFilledAncestors => Returned = [reason |-> ReasonNoCover]

\* C6: no ancestor that fails the coverage test is an overlay; when every
\* painting ancestor fails it, no fallback is set and no layer behind the branch
\* has supplied an overlay, the result is the coverage-failure reason without a
\* colour.
C6_NonCoveringAncestorsNeverCandidates ==
    pc = "resolve-done" =>
        /\ \A a \in Range(SubjectAncestors) :
              FailsCoverage(a) => \A k \in DOMAIN Overlays : Overlays[k].sourceNode # a
        /\ (/\ OnlyNonCoveringFilledAncestors
            /\ \A k \in DOMAIN Overlays : Overlays[k].sourceNode \notin BehindBranch)
           => Returned = [reason |-> ReasonNoCover]

\* In a metadata-fallback target a painting ancestor holds the subject neither in
\* raw nor in absolute coordinates, and the result is the coverage reason.
C6_Witness ==
    /\ pc = "resolve-done"
    /\ target.contextSource = "metadata-fallback"
    /\ OnlyNonCoveringFilledAncestors
    /\ Returned = [reason |-> ReasonNoCover]

\* C7: an ancestor whose paints all have alpha <= 0.001 is no overlay, and the
\* result is the one the resolver gives when these ancestors have no paint.
InvisiblyPainted(n) == n.fills # <<>> /\ \A i \in DOMAIN n.fills : n.fills[i].a <= 1

C7_TransparentAncestorsAreSkipped ==
    pc = "resolve-done" =>
        LET clear == {a \in Range(SubjectAncestors) : InvisiblyPainted(target.nodes[a])}
        IN  /\ \A k \in DOMAIN Overlays : Overlays[k].sourceNode \notin clear
            /\ Returned = resolveEffectiveBackground(WithoutFills(target, clear), subject).returned

\* The parent is painted invisibly and the colour is the opaque fill of an
\* ancestor further up.
C7_Witness ==
    /\ pc = "resolve-done"
    /\ HasColor
    /\ Len(SubjectAncestors) >= 2
    /\ InvisiblyPainted(target.nodes[SubjectAncestors[1]])
    /\ Len(Overlays) = 1
    /\ Overlays[1].sourceNode \in Range(SubjectAncestors)
    /\ Returned.color = Overlays[1].color
    /\ Returned.color.a = 1000

\* One channel of fg * a + bg * (1 - a), to the nearest integer (a in thousandths).
Mix(fg, bg, a) == (2 * (fg * a + bg * (1000 - a)) + 1000) \div 2000

\* Colour fg laid over colour bg.
Over(fg, bg) ==
    IF fg.a >= 1000 THEN fg
    ELSE [kind |-> "color", r |-> Mix(fg.r, bg.r, fg.a), g |-> Mix(fg.g, bg.g, fg.a),
          b |-> Mix(fg.b, bg.b, fg.a), a |-> 1000]

\* The overlays i, i - 1, ..., 1 laid in turn over colour c.
RECURSIVE LaidOver(_, _)
LaidOver(i, c) == IF i < 1 THEN c ELSE LaidOver(i - 1, Over(Overlays[i].color, c))

OpaqueOverlays == {i \in DOMAIN Overlays : Overlays[i].color.a >= 999}
NearestOpaque == CHOOSE i \in OpaqueOverlays : \A j \in OpaqueOverlays : i <= j
FurthestOpaque == CHOOSE i \in OpaqueOverlays : \A j \in OpaqueOverlays : j <= i

\* What the overlays up to the nearest opaque one compose to; the overlays
\* behind that one have no part in it.
ComposedFromNearestOpaque == LaidOver(NearestOpaque - 1, Overlays[NearestOpaque].color)

\* C8 as stated: with an opaque overlay, the resolved colour is the nearest
\* opaque overlay under the nearer ones, whatever lies behind it.
C8_ColourIsNearestOpaqueComposed ==
    (pc = "resolve-done" /\ OpaqueOverlays # {}) =>
        HasColor /\ Returned.color = ComposedFromNearestOpaque

\* C8: with an opaque overlay, the red, green and blue of the resolved colour
\* are those of the nearest opaque overlay under the nearer ones, whatever lies
\* behind it; its alpha is 1 as soon as an overlay lies nearer than the furthest
\* opaque one, and that overlay's own alpha otherwise.
C8_ChannelsAreNearestOpaqueComposed ==
    (pc = "resolve-done" /\ OpaqueOverlays # {}) =>
        /\ HasColor
        /\ Returned.color.r = ComposedFromNearestOpaque.r
        /\ Returned.color.g = ComposedFromNearestOpaque.g
        /\ Returned.color.b = ComposedFromNearestOpaque.b
        /\ Returned.color.a = IF FurthestOpaque = 1 THEN Overlays[1].color.a ELSE 1000

\* A translucent overlay lies over the nearest opaque one, another colour lies
\* behind it, and the result is a blend that is neither of the two in front.
C8_Witness ==
    /\ pc = "resolve-done"
    /\ Len(Overlays) = 3
    /\ OpaqueOverlays # {}
    /\ NearestOpaque = 2
    /\ Overlays[1].color.a \in 2..998
    /\ Overlays[3].color.a >= 999
    /\ Overlays[3].color # Overlays[2].color
    /\ Returned.color \notin {Overlays[1].color, Overlays[2].color, Overlays[3].color}

\* C9: overlays were found and none has alpha >= 0.999: the result is the
\* only-translucent reason without a colour, fallback colour or not.
C9_OnlyTranslucentIsUnresolved ==
    (/\ pc = "resolve-done"
     /\ Overlays # <<>>
     /\ \A k \in DOMAIN Overlays : Overlays[k].color.a < 999)
    => Returned = [reason |-> ReasonTranslucent]

\* The only overlay is translucent and the target has a fallback colour.
C9_Witness ==
    /\ pc = "resolve-done"
    /\ Overlays # <<>>
    /\ \A k \in DOMAIN Overlays : Overlays[k].color.a < 999
    /\ Truthy(target.fallbackBackgroundColor)
    /\ ~HasColor

\* C10: no overlay was found: the result is the fallback colour, its source the
\* document fallback, when the target has one; otherwise the coverage-failure
\* reason when a painting ancestor failed the coverage test, and the no-solid
\* reason when no ancestor has any paint.
C10_NoOverlayFallbackOrReason ==
    (pc = "resolve-done" /\ Overlays = <<>>) =>
        /\ Truthy(target.fallbackBackgroundColor) =>
              Returned = [color |-> target.fallbackBackgroundColor,
                          sourceLayerPath |-> FallbackPath]
        /\ (/\ ~Truthy(target.fallbackBackgroundColor)
            /\ \E a \in FilledAncestors : FailsCoverage(a))
           => Returned = [reason |-> ReasonNoCover]
        /\ (/\ ~Truthy(target.fallbackBackgroundColor)
            /\ \A a \in Range(SubjectAncestors) : target.nodes[a].fills = <<>>)
           => Returned = [reason |-> ReasonNoSolid]

\* A painting ancestor fails the coverage test, nothing else is a candidate, and
\* the fallback colour is returned.
C10_Witness ==
    /\ pc = "resolve-done"
    /\ Overlays = <<>>
    /\ \E a \in FilledAncestors : FailsCoverage(a)
    /\ Returned = [color |-> DocumentBackground, sourceLayerPath |-> FallbackPath]

(***************************************************************************)
(* core/color.ts: luminance, contrastRatio, isLargeText.  The source        *)
(* computes in floating point; here the linearised channel is kept to five *)
(* decimals and a luminance to six, and a ratio is cut to thousandths.     *)
(***************************************************************************)
\* (c / 255 <= 0.03928 ? c / 255 / 12.92 : ((c / 255 + 0.055) / 1.055) ** 2.4)
\* for c = 0, ..., 255, in hundred-thousandths; the entry for c is at c + 1.
SrgbToLinear ==
    << 0, 30, 61, 91, 121, 152, 182, 212, 243, 273, 304, 335,
       368, 402, 439, 478, 518, 561, 605, 651, 700, 750, 802, 857,
       913, 972, 1033, 1096, 1161, 1229, 1298, 1370, 1444, 1521, 1600, 1681,
       1764, 1850, 1938, 2029, 2122, 2217, 2315, 2416, 2519, 2624, 2732, 2843,
       2956, 3071, 3190, 3310, 3434, 3560, 3689, 3820, 3955, 4092, 4231, 4374,
       4519, 4667, 4817, 4971, 5127, 5286, 5448, 5613, 5781, 5951, 6125, 6301,
       6480, 6663, 6848, 7036, 7227, 7421, 7619, 7819, 8022, 8228, 8438, 8650,
       8866, 9084, 9306, 9531, 9759, 9990, 10224, 10462, 10702, 10946, 11193, 11444,
       11697, 11954, 12214, 12477, 12744, 13014, 13287, 13563, 13843, 14126, 14413, 14703,
       14996, 15293, 15593, 15896, 16203, 16513, 16827, 17144, 17465, 17789, 18116, 18447,
       18782, 19120, 19462, 19807, 20156, 20508, 20864, 21223, 21586, 21953, 22323, 22697,
       23074, 23455, 23840, 24228, 24620, 25016, 25415, 25818, 26225, 26636, 27050, 27468,
       27889, 28315, 28744, 29177, 29614, 30054, 30499, 30947, 31399, 31855, 32314, 32778,
       33245, 33716, 34191, 34670, 35153, 35640, 36131, 36625, 37124, 37626, 38133, 38643,
       39157, 39676, 40198, 40724, 41254, 41789, 42327, 42869, 43415, 43966, 44520, 45079,
       45641, 46208, 46778, 47353, 47932, 48515, 49102, 49693, 50289, 50888, 51492, 52100,
       52712, 53328, 53948, 54572, 55201, 55834, 56471, 57112, 57758, 58408, 59062, 59720,
       60383, 61050, 61721, 62396, 63076, 63760, 64448, 65141, 65837, 66539, 67244, 67954,
       68669, 69387, 70110, 70838, 71569, 72306, 73046, 73791, 74540, 75294, 76052, 76815,
       77582, 78354, 79130, 79910, 80695, 81485, 82279, 83077, 83880, 84687, 85499, 86316,
       87137, 87962, 88792, 89627, 90466, 91310, 92158, 93011, 93869, 94731, 95597, 96469,
       97345, 98225, 99110, 100000 >>

\* luminance(color), in millionths.
luminance(color) ==
    (2126 * SrgbToLinear[color.r + 1] + 7152 * SrgbToLinear[color.g + 1]
        + 722 * SrgbToLinear[color.b + 1]) \div 1000

\* contrastRatio(foreground, background), in thousandths (cut, not rounded, so
\* that ratio >= k holds of it exactly when it holds of the ratio).
contrastRatio(foreground, background) ==
    LET l1 == luminance(flattenAlpha(foreground, background))
        l2 == luminance(background)
        lighter == IF l1 >= l2 THEN l1 ELSE l2
        darker == IF l1 >= l2 THEN l2 ELSE l1
    IN  ((lighter + 50000) * 1000) \div (darker + 50000)

\* An optional number of a node.  Font sizes are in halves of a unit, so that
\* 18.5 is Num(37).
Num(v) == [kind |-> "number", value |-> v]

IsLargeTextIgnoringWeight(fontSize, fontWeight) ==
    Truthy(fontSize) /\ fontSize.value >= 37

\* isLargeText(fontSize, fontWeight)
isLargeText(fontSize, fontWeight) ==
    IF ~Truthy(fontSize) \/ fontSize.value = 0 THEN FALSE
    ELSE LET bold == (IF Truthy(fontWeight) THEN fontWeight.value ELSE 400) >= 700
         IN  IF bold THEN fontSize.value >= 37 ELSE fontSize.value >= 48

(***************************************************************************)
(* normalize/model.ts: the node selections of the rules.                   *)
(***************************************************************************)
\* firstFill(node), firstStroke(node)
firstFill(n) == IF n.fills = <<>> THEN Undefined ELSE n.fills[1]
firstStroke(n) == IF n.strokes = <<>> THEN Undefined ELSE n.strokes[1]

\* The indices of S in the order of target.nodes: what target.nodes.filter keeps.
RECURSIVE InOrder(_)
InOrder(S) ==
    IF S = {} THEN <<>>
    ELSE LET m == CHOOSE i \in S : \A j \in S : i <= j
         IN  <<m>> \o InOrder(S \ {m})

likelyTextNodes(t) == InOrder({i \in NodeIds(t) : isTextualNode(t.nodes[i])})

(***************************************************************************)
(* rules/rule-contrast-text.ts: evaluateTextContrast.  A sampler of the     *)
(* context is a function the rule is handed; here it is the colour it      *)
(* answers with (or Undefined), and the rule's calls of it are recorded.   *)
(***************************************************************************)
TextRuleId == "WCAG-1.4.3-text-contrast-minimum"

Sampler(answer) == [kind |-> "sampler", answer |-> answer]

Finding(ruleId, criterion, severity, status, nodeId) ==
    [kind |-> "finding", ruleId |-> ruleId, wcagCriterion |-> criterion,
     severity |-> severity, status |-> status, nodeId |-> nodeId]

\* bgResolution.color and the test on bgResolution.sourceLayerPath
ColorOf(resolution) ==
    IF "color" \in DOMAIN resolution THEN resolution.color ELSE Undefined
UsesDocumentFallback(resolution) ==
    "sourceLayerPath" \in DOMAIN resolution /\ resolution.sourceLayerPath = FallbackPath

\* Whether the background sampler is asked, given the resolver's answer.
AsksBackgroundSamplerAlways(c, bgResolution) == Truthy(c.sampleBackgroundColor)

AsksBackgroundSampler(c, bgResolution) ==
    /\ Truthy(c.sampleBackgroundColor)
    /\ ~Truthy(ColorOf(bgResolution)) \/ UsesDocumentFallback(bgResolution)

\* The only element of a set of one element.
One(S) == CHOOSE x \in S : TRUE

\* sampledBg, askedFg, sampledFg and the finding pushed, in one pass of the loop
\* of evaluateTextContrast.
SampledBackground(c, bgResolution) ==
    IF AsksBackgroundSampler(c, bgResolution) THEN c.sampleBackgroundColor.answer
    ELSE Undefined

AsksForegroundSampler(node, c, bg) ==
    ~Truthy(firstFill(node)) /\ Truthy(bg) /\ Truthy(c.sampleForegroundColor)

SampledForeground(node, c, bg) ==
    IF AsksForegroundSampler(node, c, bg) THEN c.sampleForegroundColor.answer
    ELSE Undefined

TextFinding(node, fg, bg) ==
    IF ~Truthy(fg) \/ ~Truthy(bg)
    THEN <<Finding(TextRuleId, "1.4.3", "major", "needs-manual-review", node.id)>>
    ELSE IF contrastRatio(fg, bg) >=
               (IF isLargeText(node.fontSize, node.fontWeight) THEN 3000 ELSE 4500)
         THEN <<>>
    ELSE <<Finding(TextRuleId, "1.4.3", "critical", "failed", node.id)>>

\* One pass of the loop of evaluateTextContrast: the locals at its end and the
\* finding pushed, if any.
TextContrastOfNode(t, c, id) ==
    One({One({One({One({
        [node |-> id, bgResolution |-> bgResolution,
         askedBg |-> AsksBackgroundSampler(c, bgResolution),
         sampledBg |-> sampledBg, bg |-> bg,
         askedFg |-> AsksForegroundSampler(t.nodes[id], c, bg),
         sampledFg |-> SampledForeground(t.nodes[id], c, bg), fg |-> fg,
         pushed |-> TextFinding(t.nodes[id], fg, bg)] :
            fg \in {IF Truthy(firstFill(t.nodes[id])) THEN firstFill(t.nodes[id])
                    ELSE SampledForeground(t.nodes[id], c, bg)}}) :
            bg \in {IF Truthy(sampledBg) THEN sampledBg ELSE ColorOf(bgResolution)}}) :
            sampledBg \in {SampledBackground(c, bgResolution)}}) :
            bgResolution \in {resolveEffectiveBackground(t, id).returned}})

RECURSIVE Flatten(_)
Flatten(seqs) == IF seqs = <<>> THEN <<>> ELSE Head(seqs) \o Flatten(Tail(seqs))

\* evaluateTextContrast(ctx): the findings returned, with the locals of every
\* pass of its loop.
evaluateTextContrast(t, c) ==
    LET nodes == likelyTextNodes(t)
        passes == [k \in DOMAIN nodes |-> TextContrastOfNode(t, c, nodes[k])]
    IN  [kind |-> "returned",
         returned |-> Flatten([k \in DOMAIN passes |-> passes[k].pushed]),
         passes |-> passes]

(***************************************************************************)
(* The nodes the rules are tried on: nodes with every field a rule reads.  *)
(***************************************************************************)
RuleKind(type, hasText, bounds, fills, strokes, isInteractive, fontSize, fontWeight) ==
    [type |-> type, hasText |-> hasText, bounds |-> bounds, fills |-> fills,
     strokes |-> strokes, isInteractive |-> isInteractive,
     fontSize |-> fontSize, fontWeight |-> fontWeight]

MakeRuleNode(id, parentId, kind) ==
    [id |-> id, parentId |-> parentId, name |-> NodeName(id), type |-> kind.type,
     hasText |-> kind.hasText, bounds |-> kind.bounds, fills |-> kind.fills,
     strokes |-> kind.strokes, isInteractive |-> kind.isInteractive,
     fontSize |-> kind.fontSize, fontWeight |-> kind.fontWeight]

\* A root frame with the given children, in this order.
MakeRuleTarget(root, children, fallback) ==
    [kind |-> "target",
     nodes |-> [id \in 1..(Len(children) + 1) |->
                   IF id = 1 THEN MakeRuleNode(1, 0, root)
                   ELSE MakeRuleNode(id, 1, children[id - 1])],
     contextSource |-> "design-context",
     fallbackBackgroundColor |-> fallback]

Plain(type, bounds, fills) ==
    RuleKind(type, FALSE, bounds, fills, <<>>, FALSE, Undefined, Undefined)

\* Root frames: unpainted, white, and translucent.
RootFrames == {Plain("FRAME", Big, <<>>), Plain("FRAME", Big, <<White>>),
               Plain("FRAME", Undefined, <<Tint>>)}

\* Greys on either side of 4.5 : 1 and of 3 : 1 against white.
G118 == Rgba(118, 118, 118, 1000)
G119 == Rgba(119, 119, 119, 1000)
G148 == Rgba(148, 148, 148, 1000)
G149 == Rgba(149, 149, 149, 1000)

\* Font size (in halves) and weight on either side of the large-text limits.
Fonts == {<<Undefined, Undefined>>, <<Num(48), Undefined>>, <<Num(47), Undefined>>,
          <<Num(37), Num(700)>>, <<Num(36), Num(700)>>, <<Num(37), Num(699)>>}

TextLayer(fills, font) ==
    RuleKind("TEXT", TRUE, Rect(32, 32, 32, 32), fills, <<>>, FALSE, font[1], font[2])

\* Text layers: the grey that passes only as large text in every font, the greys
\* next to the limits in the fonts that the limit applies to, and layers with
\* no fill of their own.
TextKinds ==
    {TextLayer(<<G119>>, font) : font \in Fonts}
        \cup {TextLayer(<<>>, font) :
                  font \in {<<Undefined, Undefined>>, <<Num(48), Undefined>>,
                            <<Num(37), Num(700)>>, <<Num(37), Num(699)>>}}
        \cup {TextLayer(<<G118>>, <<Undefined, Undefined>>)}
        \cup {TextLayer(fills, font) :
                  fills \in {<<G148>>, <<G149>>},
                  font \in {<<Num(48), Undefined>>, <<Num(37), Num(700)>>}}

(***************************************************************************)
(* SpecText: evaluateTextContrast on a root frame with text layers, with   *)
(* and without samplers and a document fallback colour.                   *)
(***************************************************************************)
MaxTextNodes == 2

InitText ==
    /\ pc = "ready"
    /\ result = NotCalled
    /\ \E k \in 1..MaxTextNodes :
          \E root \in RootFrames, ks \in [1..k -> TextKinds],
             fb \in {Undefined, DocumentBackground} :
                target = MakeRuleTarget(root, ks, fb)
    /\ \E sb \in {Undefined, Sampler(Undefined), Sampler(White)},
          sf \in {Undefined, Sampler(Undefined), Sampler(G119)} :
             context = [kind |-> "ctx", sampleBackgroundColor |-> sb,
                        sampleForegroundColor |-> sf]
    /\ subject = 0
    /\ current = 0
    /\ stood = {}
    /\ GateIdle
    /\ PolicyIdle
    /\ IntakeIdle

EvaluateTextContrastCall ==
    /\ pc = "ready"
    /\ result' = evaluateTextContrast(target, context)
    /\ pc' = "text-done"
    /\ UNCHANGED <<findings, failOn, suppressions, now, target, subject, context, payload,
                   screenshot, current, stood>>

NextText == EvaluateTextContrastCall

SpecText == InitText /\ [][NextText]_vars

\* The text-bearing nodes, the findings about a node, and the pass of the rule's
\* loop over a node.
TextBearing == {i \in NodeIds(target) : target.nodes[i].type = "TEXT" \/ target.nodes[i].hasText}
FindingsAbout(i) == {k \in DOMAIN result.returned : result.returned[k].nodeId = i}
PassesOver(i) == {k \in DOMAIN result.passes : result.passes[k].node = i}
PassOver(i) == result.passes[CHOOSE k \in PassesOver(i) : TRUE]

\* Large text: font size >= 24, or >= 18.5 with weight >= 700 (sizes in halves).
LargeText(n) ==
    /\ Truthy(n.fontSize)
    /\ \/ n.fontSize.value >= 48
       \/ n.fontSize.value >= 37 /\ Truthy(n.fontWeight) /\ n.fontWeight.value >= 700

\* (lighter + 0.05) / (darker + 0.05) >= tenths / 10 for two opaque colours.
MeetsRatio(a, b, tenths) ==
    LET la == luminance(a)
        lb == luminance(b)
    IN  IF la >= lb THEN 10 * (la + 50000) >= tenths * (lb + 50000)
        ELSE 10 * (lb + 50000) >= tenths * (la + 50000)

\* C11: for every text-bearing node the text-contrast rule emits at most one
\* finding: none when the ratio of the colours obtained meets 3 (large text) or
\* 4.5 (other text), a failed one when it is below, and a needs-manual-review one
\* when a colour is missing; a failed finding has both colours behind it, and no
\* finding is about a node without text.
C11_TextContrastOneVerdictPerNode ==
    pc = "text-done" =>
        /\ \A k \in DOMAIN result.returned : result.returned[k].nodeId \in TextBearing
        /\ \A i \in TextBearing :
              LET about == FindingsAbout(i)
                  pass == PassOver(i)
                  both == Truthy(pass.fg) /\ Truthy(pass.bg)
                  tenths == IF LargeText(target.nodes[i]) THEN 30 ELSE 45
              IN  /\ Cardinality(PassesOver(i)) = 1
                  /\ Cardinality(about) <= 1
                  /\ (both /\ MeetsRatio(pass.fg, pass.bg, tenths)) => about = {}
                  /\ (both /\ ~MeetsRatio(pass.fg, pass.bg, tenths)) =>
                        \E k \in about : result.returned[k].status = "failed"
                  /\ ~both =>
                        \E k \in about : result.returned[k].status = "needs-manual-review"

\* Of two text layers on white, one of bold 18.5 text fails against 3 : 1, and
\* the other, without a fill of its own, is left to manual review.
C11_Witness ==
    /\ pc = "text-done"
    /\ Len(result.returned) = 2
    /\ result.returned[1].status = "failed"
    /\ target.nodes[result.returned[1].nodeId].fontSize = Num(37)
    /\ result.returned[2].status = "needs-manual-review"
    /\ Truthy(PassOver(result.returned[2].nodeId).bg)

Str(s) == [kind |-> "string", value |-> s]
Bool(b) == [kind |-> "boolean", value |-> b]
Null == [kind |-> "null"]
Arr(items) == [kind |-> "array", items |-> items]

\* obj.key
Get(obj, key) == IF key \in DOMAIN obj THEN obj[key] ELSE Undefined

\* a ?? b
Coalesce(a, b) == IF a.kind \in {"undefined", "null"} THEN b ELSE a

Blank(s) == \A i \in 1..Len(s) : SubSeq(s, i, i) \in Whitespace

readString(value) ==
    IF value.kind = "string" /\ ~Blank(value.value) THEN value ELSE Undefined

readNumber(value) == IF value.kind = "number" THEN value ELSE Undefined

objectOrUndefined(value) == IF value.kind = "object" THEN value ELSE Undefined

UpperLetters == "ABCDEFGHIJKLMNOPQRSTUVWXYZ"
LowerLetters == "abcdefghijklmnopqrstuvwxyz"

\* The upper-case letter of each lower-case letter, and the reverse.
UpperOf ==
    [c \in {SubSeq(LowerLetters, i, i) : i \in 1..26} |->
        LET i == CHOOSE i \in 1..26 : SubSeq(LowerLetters, i, i) = c
        IN  SubSeq(UpperLetters, i, i)]

LowerOf ==
    [c \in {SubSeq(UpperLetters, i, i) : i \in 1..26} |->
        LET i == CHOOSE i \in 1..26 : SubSeq(UpperLetters, i, i) = c
        IN  SubSeq(LowerLetters, i, i)]

RECURSIVE toUpperCase(_)
toUpperCase(s) ==
    IF s = "" THEN ""
    ELSE LET c == SubSeq(s, 1, 1)
         IN  (IF c \in DOMAIN UpperOf THEN UpperOf[c] ELSE c)
                 \o toUpperCase(SubSeq(s, 2, Len(s)))

RECURSIVE toLowerCase(_)
toLowerCase(s) ==
    IF s = "" THEN ""
    ELSE LET c == SubSeq(s, 1, 1)
         IN  (IF c \in DOMAIN LowerOf THEN LowerOf[c] ELSE c)
                 \o toLowerCase(SubSeq(s, 2, Len(s)))

\* s.includes(word)
Includes(s, word) ==
    \E i \in 1..(Len(s) - Len(word) + 1) : SubSeq(s, i, i + Len(word) - 1) = word

INTERACTIVE_TYPES ==
    {"BUTTON", "LINK", "INPUT", "TEXTBOX", "CHECKBOX", "RADIO", "SWITCH", "TOGGLE", "TAB",
     "MENU_ITEM"}

\* INTERACTIVE_NAME_PATTERN.test(name)
INTERACTIVE_NAME_PATTERN(name) ==
    LET lower == toLowerCase(name)
    IN  \E word \in {"button", "link", "input", "field", "checkbox", "radio", "switch",
                     "tab", "menu", "dropdown", "submit", "cta"} : Includes(lower, word)

to255(value) ==
    IF value <= 1000 THEN Clamp(MathRound(value * 255, 1000), 0, 255)
    ELSE Clamp(MathRound(value, 1000), 0, 255)

\* The alpha in thousandths; a quotient by 255 is cut to the thousandth.
normalizeAlpha(value) ==
    IF value.kind = "undefined" THEN 1000
    ELSE IF value.value <= 1000 THEN Clamp(value.value, 0, 1000)
    ELSE Clamp(value.value \div 255, 0, 1000)

parseColor(colorObj, opacity) ==
    IF colorObj.kind = "undefined" THEN Undefined
    ELSE LET r == readNumber(Get(colorObj, "r"))
             g == readNumber(Get(colorObj, "g"))
             b == readNumber(Get(colorObj, "b"))
             a == Coalesce(readNumber(Get(colorObj, "a")), opacity)
         IN  IF r.kind = "undefined" \/ g.kind = "undefined" \/ b.kind = "undefined"
             THEN Undefined
             ELSE Rgba(to255(r.value), to255(g.value), to255(b.value), normalizeAlpha(a))

RECURSIVE PaintColors(_, _)
PaintColors(paints, i) ==
    IF i > Len(paints) THEN <<>>
    ELSE LET paint == paints[i]
             paintColor == parseColor(objectOrUndefined(Get(paint, "color")),
                                      readNumber(Get(paint, "opacity")))
         IN  (IF paint.kind # "object" \/ Get(paint, "visible") = Bool(FALSE)
                 \/ paintColor.kind = "undefined"
              THEN <<>> ELSE <<paintColor>>) \o PaintColors(paints, i + 1)

parsePaintList(value) == IF value.kind # "array" THEN <<>> ELSE PaintColors(value.items, 1)

\* The four numbers of a box, or undefined when one is missing.
BoxOf(pos, size) ==
    LET x == readNumber(Get(pos, "x"))
        y == readNumber(Get(pos, "y"))
        width == readNumber(Get(size, "width"))
        height == readNumber(Get(size, "height"))
    IN  IF x.kind # "undefined" /\ y.kind # "undefined" /\ width.kind # "undefined"
           /\ height.kind # "undefined"
        THEN Rect(x.value, y.value, width.value, height.value)
        ELSE Undefined

parseBounds(obj) ==
    LET boundsLike == Coalesce(objectOrUndefined(Get(obj, "absoluteBoundingBox")),
                          Coalesce(objectOrUndefined(Get(obj, "absoluteRenderBounds")),
                                   objectOrUndefined(Get(obj, "bounds"))))
        size == objectOrUndefined(Get(obj, "size"))
        position == objectOrUndefined(Get(obj, "position"))
        direct == IF Truthy(boundsLike) THEN BoxOf(boundsLike, boundsLike) ELSE Undefined
    IN  IF Truthy(direct) THEN direct
        ELSE IF Truthy(size) /\ Truthy(position) THEN BoxOf(position, size)
        ELSE Undefined

isNodeHidden(obj) == Get(obj, "visible") = Bool(FALSE) \/ Get(obj, "hidden") = Bool(TRUE)

hasZeroOpacity(obj) ==
    LET style == objectOrUndefined(Get(obj, "style"))
        opacity == Coalesce(readNumber(Get(obj, "opacity")), readNumber(Get(style, "opacity")))
    IN  opacity.kind # "undefined" /\ opacity.value <= 0

isInteractiveNode(obj, type, name) ==
    LET reactions == Get(obj, "reactions")
        role == readString(Get(obj, "role"))
    IN  \/ toUpperCase(type) \in INTERACTIVE_TYPES
        \/ INTERACTIVE_NAME_PATTERN(name)
        \/ reactions.kind = "array" /\ Len(reactions.items) > 0
        \/ Get(obj, "onClick").kind = "function"
        \/ /\ role.kind = "string"
           /\ \E word \in {"button", "link", "checkbox", "tab", "menuitem", "switch",
                           "textbox"} : Includes(toLowerCase(role.value), word)

\* The id of an object: obj.id ?? obj.nodeId, 0 when neither is there.
IdOf(obj) == IF "id" \in DOMAIN obj /\ obj.id # 0 THEN obj.id
             ELSE IF "nodeId" \in DOMAIN obj THEN obj.nodeId ELSE 0

normalizeNode(obj, parentId) ==
    LET id == IdOf(obj)
        type == readString(Get(obj, "type"))
        name == Coalesce(readString(Get(obj, "name")), type)
        text == Coalesce(readString(Get(obj, "characters")), readString(Get(obj, "text")))
        style == objectOrUndefined(Get(obj, "style"))
    IN  IF id = 0 \/ type.kind = "undefined" THEN Undefined
        ELSE [id |-> id,
              name |-> name.value,
              type |-> type.value,
              parentId |-> parentId,
              bounds |-> parseBounds(obj),
              fills |-> parsePaintList(Get(obj, "fills")),
              strokes |-> parsePaintList(Get(obj, "strokes")),
              hasText |-> text.kind = "string",
              fontSize |-> Coalesce(readNumber(Get(obj, "fontSize")),
                                    readNumber(Get(style, "fontSize"))),
              fontWeight |-> Coalesce(readNumber(Get(obj, "fontWeight")),
                                      readNumber(Get(style, "fontWeight"))),
              isInteractive |-> isInteractiveNode(obj, type.value, name.value),
              kind |-> "node"]

\* walkMaybeNode that prunes a hidden object but still walks its children.
RECURSIVE WalkMaybeNodeKeepingChildren(_, _)
RECURSIVE WalkChildren(_, _, _)
RECURSIVE walkMaybeNode(_, _)
WalkChildren(children, i, parentId) ==
    IF i > Len(children) THEN <<>>
    ELSE walkMaybeNode(children[i], parentId) \o WalkChildren(children, i + 1, parentId)

ChildrenOf(obj) ==
    IF Get(obj, "children").kind = "array" THEN obj.children.items
    ELSE IF Get(obj, "nodes").kind = "array" THEN obj.nodes.items
    ELSE <<>>

WalkMaybeNodeKeepingChildren(value, parentId) ==
    IF value.kind # "object" THEN <<>>
    ELSE IF isNodeHidden(value) \/ hasZeroOpacity(value)
    THEN WalkChildren(ChildrenOf(value), 1, parentId)
    ELSE LET node == normalizeNode(value, parentId)
             currentParent == IF Truthy(node) THEN node.id ELSE parentId
         IN  (IF Truthy(node) THEN <<node>> ELSE <<>>)
                 \o WalkChildren(ChildrenOf(value), 1, currentParent)

\* The nodes that walkMaybeNode(value, out, parentId) appends to out.
walkMaybeNode(value, parentId) ==
    IF value.kind # "object" THEN <<>>
    ELSE IF isNodeHidden(value) \/ hasZeroOpacity(value) THEN <<>>
    ELSE LET node == normalizeNode(value, parentId)
             currentParent == IF Truthy(node) THEN node.id ELSE parentId
         IN  (IF Truthy(node) THEN <<node>> ELSE <<>>)
                 \o WalkChildren(ChildrenOf(value), 1, currentParent)

\* A string of tag text is held as the tags its scan finds, in order: each tag
\* with its name, whether it closes ("</") or closes itself ("/>"), and the
\* attributes written in it.
Xml(tags) == [kind |-> "string", tags |-> tags]

\* parseXmlAttributes(attrBlock)[key]
Attr(attrs, key) == IF key \in DOMAIN attrs THEN Str(attrs[key]) ELSE Undefined

NaN == [kind |-> "NaN"]

\* Number(text) for the numerals that occur in the payloads, in quarters.
NumberOf(text) ==
    CASE text = "0" -> Num(0)
      [] text = "-1" -> Num(-4)
      [] text = "0.5" -> Num(2)
      [] text = "1" -> Num(4)
      [] text = "8" -> Num(32)
      [] text = "10" -> Num(40)
      [] text = "23.75" -> Num(95)
      [] text = "24" -> Num(96)
      [] text = "300" -> Num(1200)
      [] OTHER -> NaN

parseFiniteNumber(value) ==
    IF value.kind = "undefined" \/ value.value = "" THEN Undefined
    ELSE LET parsed == NumberOf(value.value)
         IN  IF parsed.kind = "number" THEN parsed ELSE Undefined

isInteractiveXmlNode(type, name) ==
    \/ type \in INTERACTIVE_TYPES
    \/ \E word \in {"INSTANCE", "BUTTON", "LINK", "INPUT", "ICON", "CHECKBOX", "RADIO",
                    "SWITCH", "TAB"} : Includes(type, word)
    \/ INTERACTIVE_NAME_PATTERN(name)

\* The id of the last stack entry that has one, 0 when none has.
nearestParentId(stack) ==
    LET withId == {i \in DOMAIN stack : stack[i].id # 0}
    IN  IF withId = {} THEN 0
        ELSE stack[CHOOSE i \in withId : \A j \in withId : j <= i].id

RECURSIVE ReplaceDashes(_)
ReplaceDashes(s) ==
    IF s = "" THEN ""
    ELSE (IF SubSeq(s, 1, 1) = "-" THEN "_" ELSE SubSeq(s, 1, 1))
             \o ReplaceDashes(SubSeq(s, 2, Len(s)))

\* Whether a tag is hidden: by an enclosing tag or by its own attributes.
TagHidden(stack, attrs) ==
    \/ \E i \in DOMAIN stack : stack[i].hidden
    \/ Attr(attrs, "hidden") = Str("true")
    \/ Attr(attrs, "visible") = Str("false")

TagZeroOpacity(stack, attrs) ==
    \/ \E i \in DOMAIN stack : stack[i].zeroOpacity
    \/ Coalesce(parseFiniteNumber(Attr(attrs, "opacity")), Num(4)).value <= 0

\* The node of an opening tag.
TagNode(tag, stack, fallbackParentId) ==
    LET attrs == tag.attrs
        near == nearestParentId(stack)
        name == Coalesce(Attr(attrs, "name"), Str(tag.tagName)).value
        type == toUpperCase(ReplaceDashes(tag.tagName))
    IN  [id |-> attrs.id,
         name |-> name,
         type |-> type,
         parentId |-> IF near # 0 THEN near ELSE fallbackParentId,
         bounds |-> BoxOf([x |-> parseFiniteNumber(Attr(attrs, "x")),
                           y |-> parseFiniteNumber(Attr(attrs, "y"))],
                          [width |-> parseFiniteNumber(Attr(attrs, "width")),
                           height |-> parseFiniteNumber(Attr(attrs, "height"))]),
         fills |-> <<>>,
         strokes |-> <<>>,
         hasText |-> type = "TEXT",
         fontSize |-> Undefined,
         fontWeight |-> Undefined,
         isInteractive |-> isInteractiveXmlNode(type, name),
         kind |-> "node"]

RECURSIVE ParseTags(_, _, _, _, _)
ParseTags(tags, i, stack, nodes, fallbackParentId) ==
    IF i > Len(tags) THEN nodes
    ELSE LET tag == tags[i]
         IN  IF tag.closing
             THEN ParseTags(tags, i + 1,
                            IF stack = <<>> THEN stack ELSE SubSeq(stack, 1, Len(stack) - 1),
                            nodes, fallbackParentId)
             ELSE LET hidden == TagHidden(stack, tag.attrs)
                      zeroOpacity == TagZeroOpacity(stack, tag.attrs)
                      id == IF "id" \in DOMAIN tag.attrs THEN tag.attrs.id ELSE 0
                      kept == id # 0 /\ ~hidden /\ ~zeroOpacity
                  IN  ParseTags(tags, i + 1,
                          IF tag.selfClosing THEN stack
                          ELSE Append(stack, [id |-> IF kept THEN id ELSE 0,
                                              hidden |-> hidden,
                                              zeroOpacity |-> zeroOpacity]),
                          IF kept THEN Append(nodes, TagNode(tag, stack, fallbackParentId))
                          ELSE nodes,
                          fallbackParentId)

parseXmlMetadataNodes(xml, fallbackParentId) ==
    ParseTags(xml.tags, 1, <<>>, <<>>, fallbackParentId)

\* richerString that takes the later of two non-empty strings.
RicherStringLatest(a, b) ==
    IF a = "" /\ b = "" THEN Undefined
    ELSE IF a = "" THEN Str(b)
    ELSE Str(IF b = "" THEN a ELSE b)

richerString(a, b) ==
    IF a = "" /\ b = "" THEN Undefined
    ELSE IF a = "" THEN Str(b)
    ELSE IF b = "" THEN Str(a)
    ELSE IF Len(b) > Len(a) THEN Str(b) ELSE Str(a)

\* The merged record of two nodes with one id.
MergedNode(existing, node) ==
    [existing EXCEPT
        !.name = Coalesce(richerString(existing.name, node.name), Str(existing.name)).value,
        !.type = Coalesce(richerString(existing.type, node.type), Str(existing.type)).value,
        !.parentId = IF existing.parentId # 0 THEN existing.parentId ELSE node.parentId,
        !.bounds = Coalesce(existing.bounds, node.bounds),
        !.fills = IF Len(node.fills) > 0 THEN node.fills ELSE existing.fills,
        !.strokes = IF Len(node.strokes) > 0 THEN node.strokes ELSE existing.strokes,
        !.hasText = node.hasText \/ existing.hasText,
        !.fontSize = Coalesce(existing.fontSize, node.fontSize),
        !.fontWeight = Coalesce(existing.fontWeight, node.fontWeight),
        !.isInteractive = existing.isInteractive \/ node.isInteractive]

RECURSIVE MergeInto(_, _, _)
MergeInto(nodes, i, merged) ==
    IF i > Len(nodes) THEN merged
    ELSE LET node == nodes[i]
             at == {k \in DOMAIN merged : merged[k].id = node.id}
         IN  MergeInto(nodes, i + 1,
                 IF at = {} THEN Append(merged, node)
                 ELSE LET k == CHOOSE k \in at : TRUE
                      IN  [merged EXCEPT ![k] = MergedNode(merged[k], node)])

mergeNodesById(nodes) == MergeInto(nodes, 1, <<>>)

\* hints is undefined or maps some ids to hinted colours.
HintedNode(node, hints) ==
    IF node.id \notin DOMAIN hints THEN node
    ELSE LET hint == hints[node.id]
             textLike == toUpperCase(node.type) = "TEXT" \/ node.hasText
             hintedFillColors == IF textLike /\ Len(hint.textFills) > 0
                                 THEN hint.textFills ELSE hint.fills
         IN  [node EXCEPT
                 !.fills = IF Len(node.fills) > 0 THEN node.fills ELSE hintedFillColors,
                 !.strokes = IF Len(node.strokes) > 0 THEN node.strokes ELSE hint.strokes]

applyNodeStyleHints(nodes, hints) ==
    IF hints.kind = "undefined" \/ DOMAIN hints.of = {} THEN nodes
    ELSE [k \in DOMAIN nodes |-> HintedNode(nodes[k], hints.of)]

\* context.document ?? context.node ?? context
SourceOf(designContext) ==
    LET obj == objectOrUndefined(designContext)
    IN  Coalesce(Coalesce(Get(obj, "document"), Get(obj, "node")), designContext)

RECURSIVE ExpansionNodes(_, _, _)
ExpansionNodes(expansions, i, rootId) ==
    IF i > Len(expansions) THEN <<>>
    ELSE LET expansionSource == SourceOf(expansions[i].context)
         IN  (IF expansionSource.kind = "string"
              THEN parseXmlMetadataNodes(expansionSource, rootId)
              ELSE walkMaybeNode(expansionSource, rootId))
                 \o ExpansionNodes(expansions, i + 1, rootId)

\* rawNodes of collectNormalizedNodes once its loops have run.
rawNodes(p) ==
    LET primarySource == SourceOf(p.designContext)
    IN  (IF primarySource.kind = "string" THEN parseXmlMetadataNodes(primarySource, 0)
         ELSE walkMaybeNode(primarySource, 0))
            \o ExpansionNodes(Coalesce(Get(p, "expandedDesignContexts"), Arr(<<>>)).items,
                              1, p.nodeId)

collectNormalizedNodes(p) ==
    applyNodeStyleHints(mergeNodesById(rawNodes(p)), Get(p, "nodeStyleHints"))

NoNodesWarning ==
    "No traversable nodes were found in design context; checks may be incomplete."

normalizeTarget(p) ==
    LET nodes == collectNormalizedNodes(p)
    IN  [kind |-> "target",
         nodeId |-> p.nodeId,
         nodes |-> nodes,
         warnings |-> IF Len(nodes) = 0 THEN Append(p.warnings, NoNodesWarning)
                      ELSE p.warnings,
         contextSource |-> Coalesce(Get(p, "contextSource"), Str("design-context")).value,
         fallbackBackgroundColor |-> Get(p, "fallbackBackgroundColor")]

\* the payload as normalizeTarget leaves it: payload.warnings.push(...)
PayloadAfterNormalizeTarget(p) ==
    IF Len(collectNormalizedNodes(p)) = 0
    THEN [p EXCEPT !.warnings = Append(@, NoNodesWarning)]
    ELSE p

(***************************************************************************)
(* rules/rule-target-size.ts: evaluateTargetSize.                          *)
(***************************************************************************)
likelyInteractiveNodes(t) == InOrder({k \in DOMAIN t.nodes : t.nodes[k].isInteractive})

SizeRuleId == "WCAG-2.5.8-target-size-minimum"

\* The finding of one interactive node, if any; 24 px is 96 quarters.
TargetSizeAcceptingOneSide(n) ==
    IF ~Truthy(n.bounds)
    THEN <<Finding(SizeRuleId, "2.5.8", "major", "needs-manual-review", n.id)>>
    ELSE IF n.bounds.width >= 96 \/ n.bounds.height >= 96 THEN <<>>
    ELSE <<Finding(SizeRuleId, "2.5.8", "blocker", "failed", n.id)>>

TargetSizeOfNode(n) ==
    IF ~Truthy(n.bounds)
    THEN <<Finding(SizeRuleId, "2.5.8", "major", "needs-manual-review", n.id)>>
    ELSE IF n.bounds.width >= 96 /\ n.bounds.height >= 96 THEN <<>>
    ELSE <<Finding(SizeRuleId, "2.5.8", "blocker", "failed", n.id)>>

evaluateTargetSize(t) ==
    LET order == likelyInteractiveNodes(t)
    IN  Flatten([k \in DOMAIN order |-> TargetSizeOfNode(t.nodes[order[k]])])

(***************************************************************************)
(* Payloads.  A design is a tree of layers; a payload holds it as nested   *)
(* objects or as tag text, whole or cut below a depth, with the tag text   *)
(* of the whole design as metadata and with expansions of layers that the  *)
(* metadata shows as visible.                                              *)
(***************************************************************************)
Layer(tag, name, mark, hasId, box, reacts) ==
    [tag |-> tag, name |-> name, mark |-> mark, hasId |-> hasId, box |-> box,
     reacts |-> reacts]

LayerKinds ==
    {Layer("frame", "Panel", "shown", TRUE, <<"300", "300">>, FALSE),
     Layer("rectangle", "Chip", "hidden", TRUE, <<"10", "10">>, TRUE),
     Layer("frame", "Group", "invisible", FALSE, <<>>, FALSE),
     Layer("rectangle", "Link", "clear", TRUE, <<"10", "10">>, FALSE),
     Layer("button", "Ok", "faded", TRUE, <<"24", "23.75">>, FALSE),
     Layer("instance", "Tab", "shown", TRUE, <<>>, TRUE),
     Layer("rectangle", "Card", "shown", TRUE, <<"24", "24">>, TRUE)}

\* The layers that a design starts from: a visible frame, or a hidden one.
RootLayers ==
    {Layer("frame", "Panel", "shown", TRUE, <<"300", "300">>, FALSE),
     Layer("rectangle", "Chip", "hidden", TRUE, <<"10", "10">>, TRUE)}

TreeParentMaps(n) ==
    {ps \in [1..n -> 0..n] : ps[1] = 0 /\ \A i \in 2..n : ps[i] \in 1..(i - 1)}

Design(ps, ks) == [parents |-> ps, kinds |-> ks]

DesignChildren(d, i) == InOrder({j \in DOMAIN d.parents : d.parents[j] = i})

RECURSIVE DesignDepth(_, _)
DesignDepth(d, i) == IF d.parents[i] = 0 THEN 1 ELSE 1 + DesignDepth(d, d.parents[i])

\* The layers of a design that are written out: those no deeper than the limit.
Written(d, i, limit) == {j \in Range(DesignChildren(d, i)) : DesignDepth(d, j) <= limit}

RECURSIVE RenderObject(_, _, _)
RenderObject(d, i, limit) ==
    LET k == d.kinds[i]
        kids == InOrder(Written(d, i, limit))
    IN  [kind |-> "object", type |-> Str(toUpperCase(ReplaceDashes(k.tag))),
         name |-> Str(k.name)]
        @@ (IF k.hasId THEN [id |-> i] ELSE <<>>)
        @@ (CASE k.mark = "hidden" -> [hidden |-> Bool(TRUE)]
              [] k.mark = "invisible" -> [visible |-> Bool(FALSE)]
              [] k.mark = "clear" -> [opacity |-> Num(0)]
              [] k.mark = "faded" -> [style |-> [kind |-> "object", opacity |-> Num(2)]]
              [] OTHER -> <<>>)
        @@ (IF k.box = <<>> THEN <<>>
            ELSE [absoluteBoundingBox |->
                     [kind |-> "object", x |-> Num(0), y |-> Num(0),
                      width |-> NumberOf(k.box[1]), height |-> NumberOf(k.box[2])]])
        @@ (IF k.reacts THEN [reactions |-> Arr(<<[kind |-> "object"]>>)] ELSE <<>>)
        @@ (IF kids = <<>> THEN <<>>
            ELSE [children |-> Arr([c \in DOMAIN kids |-> RenderObject(d, kids[c], limit)])])

RECURSIVE RenderXml(_, _, _)
RenderXml(d, i, limit) ==
    LET k == d.kinds[i]
        kids == InOrder(Written(d, i, limit))
        attrs == [name |-> k.name]
                 @@ (IF k.hasId THEN [id |-> i] ELSE <<>>)
                 @@ (CASE k.mark = "hidden" -> [hidden |-> "true"]
                       [] k.mark = "invisible" -> [visible |-> "false"]
                       [] k.mark = "clear" -> [opacity |-> "0"]
                       [] k.mark = "faded" -> [opacity |-> "0.5"]
                       [] OTHER -> <<>>)
                 @@ (IF k.box = <<>> THEN <<>>
                     ELSE [x |-> "0", y |-> "0", width |-> k.box[1], height |-> k.box[2]])
        open == [tagName |-> k.tag, closing |-> FALSE, selfClosing |-> kids = <<>>,
                 attrs |-> attrs]
    IN  IF kids = <<>> THEN <<open>>
        ELSE <<open>> \o Flatten([c \in DOMAIN kids |-> RenderXml(d, kids[c], limit)])
                 \o <<[tagName |-> k.tag, closing |-> TRUE, selfClosing |-> FALSE,
                       attrs |-> <<>>]>>

Marked(d, i) == d.kinds[i].mark \in {"hidden", "invisible", "clear"}

RECURSIVE UnderMark(_, _)
UnderMark(d, i) == Marked(d, i) \/ (d.parents[i] # 0 /\ UnderMark(d, d.parents[i]))

\* The layers that an expansion is asked for: those other than the root that
\* the metadata shows with an id and neither hidden nor transparent.
Candidates(d) == {i \in DOMAIN d.parents : i # 1 /\ d.kinds[i].hasId /\ ~UnderMark(d, i)}

Rendered(d, i, limit, shape) ==
    CASE shape = "object" -> RenderObject(d, i, limit)
      [] shape = "document" -> [kind |-> "object", document |-> RenderObject(d, i, limit)]
      [] shape = "node" -> [kind |-> "object", node |-> RenderObject(d, i, limit)]
      [] OTHER -> Xml(RenderXml(d, i, limit))

MakePayload(d, limit, shape, roots, expansionShape) ==
    LET order == InOrder(roots)
    IN  [kind |-> "payload", nodeId |-> 1, warnings |-> <<>>,
         designContext |-> Rendered(d, 1, limit, shape),
         metadata |-> Xml(RenderXml(d, 1, Len(d.parents)))]
        @@ (IF roots = {} THEN <<>>
            ELSE [expandedDesignContexts |->
                     Arr([e \in DOMAIN order |->
                            [nodeId |-> order[e],
                             context |-> Rendered(d, order[e], Len(d.parents),
                                                  expansionShape)]])])

(***************************************************************************)
(* SpecPrune: normalizeTarget on a payload, then evaluateTargetSize on the  *)
(* target it made.                                                         *)
(***************************************************************************)
MaxRawNodes == 3

InitPrune ==
    /\ pc = "ready"
    /\ result = NotCalled
    /\ target = NoTarget
    /\ \E n \in 1..MaxRawNodes :
          \E ps \in TreeParentMaps(n) :
             \E ks \in {ks \in [1..n -> LayerKinds] : ks[1] \in RootLayers} :
                \E limit \in {1, n}, shape \in {"document", "xml"} :
                   \E roots \in SUBSET Candidates(Design(ps, ks)) :
                      \E expansionShape \in {"node", "xml"} :
                         /\ roots = {} => expansionShape = "node"
                         /\ payload = MakePayload(Design(ps, ks), limit, shape, roots,
                                                  expansionShape)
    /\ screenshot = NoScreenshot
    /\ subject = 0
    /\ current = 0
    /\ stood = {}
    /\ GateIdle
    /\ PolicyIdle
    /\ RulesIdle

NormalizeTargetCall ==
    /\ pc = "ready"
    /\ target' = normalizeTarget(payload)
    /\ payload' = PayloadAfterNormalizeTarget(payload)
    /\ pc' = "normalized"
    /\ UNCHANGED <<result, findings, failOn, suppressions, now, subject, context,
                   screenshot, current, stood>>

EvaluateTargetSizeCall ==
    /\ pc = "normalized"
    /\ result' = [kind |-> "returned", returned |-> evaluateTargetSize(target)]
    /\ pc' = "size-done"
    /\ UNCHANGED <<findings, failOn, suppressions, now, target, subject, context, payload,
                   screenshot, current, stood>>

NextPrune == NormalizeTargetCall \/ EvaluateTargetSizeCall

SpecPrune == InitPrune /\ [][NextPrune]_vars

\* The tags of the metadata, the opening tags that enclose a tag, and the ids
\* that the metadata shows as hidden or transparent, by themselves or by an
\* enclosing tag.
MetaTags == payload.metadata.tags

Balance(i, k) ==
    Cardinality({j \in (i + 1)..(k - 1) : ~MetaTags[j].closing /\ ~MetaTags[j].selfClosing})
        - Cardinality({j \in (i + 1)..(k - 1) : MetaTags[j].closing})

IsCloseOf(i, k) ==
    /\ k > i
    /\ MetaTags[k].closing
    /\ Balance(i, k) = 0
    /\ \A m \in (i + 1)..(k - 1) : ~(MetaTags[m].closing /\ Balance(i, m) = 0)

Enclosing(j) ==
    {i \in 1..(j - 1) :
        /\ ~MetaTags[i].closing
        /\ ~MetaTags[i].selfClosing
        /\ \E k \in (j + 1)..Len(MetaTags) : IsCloseOf(i, k)}

OwnMark(j) ==
    LET attrs == MetaTags[j].attrs
    IN  \/ "hidden" \in DOMAIN attrs /\ attrs.hidden = "true"
        \/ "visible" \in DOMAIN attrs /\ attrs.visible = "false"
        \/ "opacity" \in DOMAIN attrs /\ attrs.opacity \in {"0", "-1"}

OpeningWithId == {j \in DOMAIN MetaTags : ~MetaTags[j].closing /\ "id" \in DOMAIN MetaTags[j].attrs}

PrunedIds ==
    {MetaTags[j].attrs.id :
        j \in {j \in OpeningWithId : OwnMark(j) \/ \E i \in Enclosing(j) : OwnMark(i)}}

SizeFindingsAbout(id) == {f \in DOMAIN result.returned : result.returned[f].nodeId = id}

NodeById(t, id) ==
    LET at == {k \in DOMAIN t.nodes : t.nodes[k].id = id}
    IN  IF at = {} THEN Undefined
        ELSE t.nodes[CHOOSE k \in at : \A j \in at : j <= k]

\* /icon|input|button|radio|checkbox|toggle|tab/i.test(name)
IconLikeName(name) ==
    LET lower == toLowerCase(name)
    IN  \E word \in {"icon", "input", "button", "radio", "checkbox", "toggle", "tab"} :
            Includes(lower, word)

likelyNonTextContrastNodes(t) ==
    InOrder({k \in DOMAIN t.nodes :
                LET n == t.nodes[k]
                IN  /\ Len(n.fills) > 0 \/ Len(n.strokes) > 0
                    /\ toUpperCase(n.type) # "TEXT"
                    /\ n.isInteractive \/ IconLikeName(n.name)})

\* The loop of findNearestBackground from a node: the first fill of the nearest
\* ancestor that has one, or undefined when the walk ends without one.
RECURSIVE NearestAncestorFill(_, _)
NearestAncestorFill(t, n) ==
    IF n.parentId = 0 THEN Undefined
    ELSE LET parent == NodeById(t, n.parentId)
         IN  IF ~Truthy(parent) THEN Undefined
             ELSE IF Len(parent.fills) > 0 THEN parent.fills[1]
             ELSE NearestAncestorFill(t, parent)

findNearestBackground(t, n) ==
    LET near == NearestAncestorFill(t, n)
        roots == {k \in DOMAIN t.nodes :
                     t.nodes[k].parentId = 0 /\ Len(t.nodes[k].fills) > 0}
    IN  IF Truthy(near) THEN near
        ELSE IF roots # {}
        THEN t.nodes[CHOOSE k \in roots : \A j \in roots : k <= j].fills[1]
        ELSE White

NonTextRuleId == "WCAG-1.4.11-nontext-contrast"

NonTextContrastOfNode(t, n) ==
    LET fg == Coalesce(firstStroke(n), firstFill(n))
        bg == findNearestBackground(t, n)
    IN  IF ~Truthy(fg) \/ ~Truthy(bg)
        THEN <<Finding(NonTextRuleId, "1.4.11", "major", "needs-manual-review", n.id)>>
        ELSE IF contrastRatio(fg, bg) >= 3000 THEN <<>>
        ELSE <<Finding(NonTextRuleId, "1.4.11", "major", "failed", n.id)>>

evaluateNonTextContrast(t) ==
    LET order == likelyNonTextContrastNodes(t)
    IN  Flatten([k \in DOMAIN order |-> NonTextContrastOfNode(t, t.nodes[order[k]])])

(***************************************************************************)
(* SpecNonText: normalizeTarget on a frame of painted layers, then         *)
(* evaluateNonTextContrast on the target it made.                          *)
(***************************************************************************)
\* A paint of a payload: a colour in thousandths of the full channel, with the
\* alpha in the colour, in the paint's opacity, or in neither.
Paint(r, g, b) ==
    [kind |-> "object", type |-> Str("SOLID"),
     color |-> [kind |-> "object", r |-> Num(r), g |-> Num(g), b |-> Num(b)]]

PaintWithAlpha(r, g, b, a) ==
    [kind |-> "object", type |-> Str("SOLID"),
     color |-> [kind |-> "object", r |-> Num(r), g |-> Num(g), b |-> Num(b), a |-> Num(a)]]

PaintWithOpacity(r, g, b, opacity) == Paint(r, g, b) @@ [opacity |-> Num(opacity)]

PaintedLayer(type, name, fills, strokes, reacts) ==
    [kind |-> "object", type |-> Str(type), name |-> Str(name),
     absoluteBoundingBox |-> [kind |-> "object", x |-> Num(0), y |-> Num(0),
                              width |-> Num(96), height |-> Num(96)],
     fills |-> Arr(fills), strokes |-> Arr(strokes)]
    @@ (IF reacts THEN [reactions |-> Arr(<<[kind |-> "object"]>>)] ELSE <<>>)

PaintedFrames ==
    {PaintedLayer("FRAME", "Screen", <<>>, <<>>, FALSE),
     PaintedLayer("FRAME", "Screen", <<Paint(1000, 1000, 1000)>>, <<>>, FALSE),
     PaintedLayer("FRAME", "Screen", <<Paint(157, 157, 157)>>, <<>>, FALSE)}

PaintedLayers ==
    {PaintedLayer("VECTOR", "Icon", <<Paint(157, 157, 157)>>, <<>>, FALSE),
     PaintedLayer("VECTOR", "Icon", <<Paint(961, 961, 961)>>, <<>>, FALSE),
     PaintedLayer("VECTOR", "Icon", <<PaintWithAlpha(157, 157, 157, 0)>>, <<>>, FALSE),
     PaintedLayer("RECTANGLE", "Toggle", <<>>, <<PaintWithOpacity(157, 157, 157, 0)>>, FALSE),
     PaintedLayer("RECTANGLE", "Card", <<>>, <<Paint(961, 961, 961)>>, TRUE),
     PaintedLayer("RECTANGLE", "Button", <<Paint(961, 961, 961) @@ [visible |-> Bool(FALSE)]>>,
                  <<>>, FALSE),
     PaintedLayer("TEXT", "Tab", <<Paint(961, 961, 961)>>, <<>>, FALSE),
     PaintedLayer("RECTANGLE", "Shape", <<Paint(961, 961, 961)>>, <<>>, FALSE)}

MaxPainted == 2

InitNonText ==
    /\ pc = "ready"
    /\ result = NotCalled
    /\ target = NoTarget
    /\ \E n \in 1..MaxPainted :
          \E frame \in PaintedFrames :
             \E layers \in [1..n -> PaintedLayers] :
                payload =
                    [kind |-> "payload", nodeId |-> 1, warnings |-> <<>>,
                     designContext |->
                        [kind |-> "object",
                         document |->
                            frame @@ [id |-> 1,
                                      children |->
                                          Arr([k \in 1..n |-> layers[k] @@ [id |-> k + 1]])]]]
    /\ screenshot = NoScreenshot
    /\ subject = 0
    /\ current = 0
    /\ stood = {}
    /\ GateIdle
    /\ PolicyIdle
    /\ RulesIdle

EvaluateNonTextContrastCall ==
    /\ pc = "normalized"
    /\ result' = [kind |-> "returned", returned |-> evaluateNonTextContrast(target)]
    /\ pc' = "nontext-done"
    /\ UNCHANGED <<findings, failOn, suppressions, now, target, subject, context, payload,
                   screenshot, current, stood>>

NextNonText == NormalizeTargetCall \/ EvaluateNonTextContrastCall

SpecNonText == InitNonText /\ [][NextNonText]_vars

\* The findings about a node of the target, the candidates of the rule as the
\* claims describe them, and the nodes above a node.
NonTextFindingsAbout(id) ==
    {f \in DOMAIN result.returned : result.returned[f].nodeId = id}

RECURSIVE FilledAbove(_)
FilledAbove(n) ==
    /\ n.parentId # 0
    /\ LET parent == NodeById(target, n.parentId)
       IN  Truthy(parent) /\ (Len(parent.fills) > 0 \/ FilledAbove(parent))

NonTextCandidate(n) ==
    /\ Len(n.fills) > 0 \/ Len(n.strokes) > 0
    /\ n.type # "TEXT"
    /\ n.isInteractive \/ IconLikeName(n.name)

AllTransparent(n) ==
    /\ \A i \in DOMAIN n.fills : n.fills[i].a = 0
    /\ \A i \in DOMAIN n.strokes : n.strokes[i].a = 0

\* C14: a candidate of the non-text contrast rule that has no ancestor with a
\* fill gets one needs-manual-review finding, and no other verdict.
C14_NoAncestorFillMeansManualReview ==
    pc = "nontext-done" =>
        \A k \in DOMAIN target.nodes :
            LET n == target.nodes[k]
            IN  (NonTextCandidate(n) /\ ~AllTransparent(n) /\ ~FilledAbove(n)) =>
                    /\ NonTextFindingsAbout(n.id) # {}
                    /\ \A f \in NonTextFindingsAbout(n.id) :
                          result.returned[f].status = "needs-manual-review"

\* C15: a node whose fills and strokes are all of alpha 0 gets no finding from
\* the non-text contrast rule; nor does a text node, a node that is neither
\* interactive nor icon-like, or a node without fill and stroke.
C15_OnlyVisiblyPaintedCandidatesAreEvaluated ==
    pc = "nontext-done" =>
        \A k \in DOMAIN target.nodes :
            LET n == target.nodes[k]
            IN  (~NonTextCandidate(n) \/ AllTransparent(n)) => NonTextFindingsAbout(n.id) = {}

Record(shape, type, name, box, fills, strokes, reacts) ==
    [shape |-> shape, type |-> type, name |-> name, box |-> box, fills |-> fills,
     strokes |-> strokes, reacts |-> reacts]

RecordKinds ==
    {Record("object", "TEXT", "Title", <<>>, <<>>, <<>>, FALSE),
     Record("object", "TEXT", "Title label", <<"10", "10">>, <<Paint(157, 157, 157)>>, <<>>,
            TRUE),
     Record("object", "FRAME", "Label", <<"24", "24">>, <<Paint(1000, 1000, 1000)>>,
            <<Paint(157, 157, 157)>>, FALSE),
     Record("object", "INSTANCE", "Label", <<>>, <<>>, <<Paint(1000, 1000, 1000)>>, FALSE),
     Record("xml", "text", "Title", <<"24", "24">>, <<>>, <<>>, FALSE),
     Record("xml", "instance", "", <<>>, <<>>, <<>>, FALSE)}

\* The layer's id, and the ids of the root and of the wrapping frame.
MergedId == 2
RootId == 1
WrapId == 3

RecordObject(r) ==
    [kind |-> "object", id |-> MergedId, type |-> Str(r.type), name |-> Str(r.name),
     fills |-> Arr(r.fills), strokes |-> Arr(r.strokes)]
    @@ (IF r.box = <<>> THEN <<>>
        ELSE [absoluteBoundingBox |->
                 [kind |-> "object", x |-> Num(0), y |-> Num(0),
                  width |-> NumberOf(r.box[1]), height |-> NumberOf(r.box[2])]])
    @@ (IF r.reacts THEN [reactions |-> Arr(<<[kind |-> "object"]>>)] ELSE <<>>)

RecordTag(r) ==
    [tagName |-> r.type, closing |-> FALSE, selfClosing |-> TRUE,
     attrs |-> [id |-> MergedId, name |-> r.name]
               @@ (IF r.box = <<>> THEN <<>>
                   ELSE [x |-> "0", y |-> "0", width |-> r.box[1], height |-> r.box[2]])]

FrameObject(id, name, children) ==
    [kind |-> "object", id |-> id, type |-> Str("FRAME"), name |-> Str(name),
     children |-> Arr(children)]

FrameTags(id, name, inner) ==
    <<[tagName |-> "frame", closing |-> FALSE, selfClosing |-> FALSE,
       attrs |-> [id |-> id, name |-> name]]>>
        \o inner
        \o <<[tagName |-> "frame", closing |-> TRUE, selfClosing |-> FALSE, attrs |-> <<>>]>>

\* A record where it is placed: directly ("top") or in the wrapping frame.
PlacedObject(r, place) ==
    IF place = "wrapped" THEN FrameObject(WrapId, "Wrap", <<RecordObject(r)>>)
    ELSE RecordObject(r)

PlacedTags(r, place) ==
    IF place = "wrapped" THEN FrameTags(WrapId, "Wrap", <<RecordTag(r)>>)
    ELSE <<RecordTag(r)>>

PrimaryOf(r, place) ==
    IF r.shape = "xml" THEN Xml(FrameTags(RootId, "Root", PlacedTags(r, place)))
    ELSE [kind |-> "object",
          document |-> FrameObject(RootId, "Root", <<PlacedObject(r, place)>>)]

ExpansionOf(r, place) ==
    [nodeId |-> IF place = "wrapped" THEN WrapId ELSE MergedId,
     context |-> IF r.shape = "xml" THEN Xml(PlacedTags(r, place))
                 ELSE [kind |-> "object", node |-> PlacedObject(r, place)]]

MaxRecords == 3

InitMerge ==
    /\ pc = "ready"
    /\ result = NotCalled
    /\ target = NoTarget
    /\ \E m \in 1..MaxRecords :
          \E rs \in [1..m -> RecordKinds] :
             \E places \in [1..m -> {"top", "wrapped"}] :
                payload =
                    [kind |-> "payload", nodeId |-> RootId, warnings |-> <<>>,
                     designContext |-> PrimaryOf(rs[1], places[1])]
                    @@ (IF m = 1 THEN <<>>
                        ELSE [expandedDesignContexts |->
                                 Arr([e \in 1..(m - 1) |->
                                        ExpansionOf(rs[e + 1], places[e + 1])])])
    /\ screenshot = NoScreenshot
    /\ subject = 0
    /\ current = 0
    /\ stood = {}
    /\ GateIdle
    /\ PolicyIdle
    /\ RulesIdle

NextMerge == NormalizeTargetCall

SpecMerge == InitMerge /\ [][NextMerge]_vars

\* The records of an id as they arrive, in order, and the nodes of the target
\* with the id.
RECURSIVE Arrived(_, _, _)
Arrived(nodes, i, id) ==
    IF i > Len(nodes) THEN <<>>
    ELSE (IF nodes[i].id = id THEN <<nodes[i]>> ELSE <<>>) \o Arrived(nodes, i + 1, id)

RecordsOf(id) == Arrived(rawNodes(payload), 1, id)

NodesOf(id) == {k \in DOMAIN target.nodes : target.nodes[k].id = id}

\* The first value other than none that a field takes in a sequence of records.
FirstKnownParent(recs) ==
    LET known == {i \in DOMAIN recs : recs[i].parentId # 0}
    IN  IF known = {} THEN 0 ELSE recs[CHOOSE i \in known : \A j \in known : i <= j].parentId

FirstKnownBounds(recs) ==
    LET known == {i \in DOMAIN recs : Truthy(recs[i].bounds)}
    IN  IF known = {} THEN Undefined
        ELSE recs[CHOOSE i \in known : \A j \in known : i <= j].bounds

\* C17: for every id that arrives in records of the primary payload and its
\* expansions, the target holds one node: its name and type are among the
\* longest of the records', its parentId and bounds are the first known ones,
\* its fills and strokes are a record's non-empty list when a record has one,
\* and it is interactive exactly when a record is.
C17_RecordsOfOneIdAreMerged ==
    pc = "normalized" =>
        \A id \in {RootId, MergedId, WrapId} :
            LET recs == RecordsOf(id)
            IN  recs # <<>> =>
                    /\ Cardinality(NodesOf(id)) = 1
                    /\ LET n == target.nodes[CHOOSE k \in NodesOf(id) : TRUE]
                       IN  /\ \E i \in DOMAIN recs : n.name = recs[i].name
                           /\ \A i \in DOMAIN recs : Len(n.name) >= Len(recs[i].name)
                           /\ \E i \in DOMAIN recs : n.type = recs[i].type
                           /\ \A i \in DOMAIN recs : Len(n.type) >= Len(recs[i].type)
                           /\ n.parentId = FirstKnownParent(recs)
                           /\ n.bounds = FirstKnownBounds(recs)
                           /\ \E i \in DOMAIN recs : n.fills = recs[i].fills
                           /\ (\E i \in DOMAIN recs : recs[i].fills # <<>>) => n.fills # <<>>
                           /\ \E i \in DOMAIN recs : n.strokes = recs[i].strokes
                           /\ (\E i \in DOMAIN recs : recs[i].strokes # <<>>) =>
                                 n.strokes # <<>>
                           /\ n.isInteractive = \E i \in DOMAIN recs : recs[i].isInteractive

\* Three records of one layer arrive: the first with the shortest name, under
\* another parent than the second and without bounds, fills or interaction,
\* which later records supply.
C17_Witness ==
    /\ pc = "normalized"
    /\ LET recs == RecordsOf(MergedId)
       IN  /\ Len(recs) = 3
           /\ Len(recs[1].name) < Len(recs[2].name)
           /\ recs[1].parentId # recs[2].parentId
           /\ ~Truthy(recs[1].bounds) /\ Truthy(recs[3].bounds)
           /\ recs[1].fills = <<>> /\ recs[2].fills # <<>> /\ recs[3].fills = <<>>
           /\ ~recs[1].isInteractive /\ recs[2].isInteractive
    /\ Cardinality(NodesOf(MergedId)) = 1

(***************************************************************************)
(* The screenshot decoder of core/screenshot-sampler.ts.  A file is its    *)
(* signature (in hex) and its chunks; a chunk is whole when its data and   *)
(* checksum lie inside the file.  The data of an IHDR chunk is the fields  *)
(* read from it, the data of an IDAT chunk a piece of a zlib stream.       *)
(***************************************************************************)
SIGNATURE == "89504e470d0a1a0a"

Chunk(type, data, whole) == [type |-> type, data |-> data, whole |-> whole]

Bytes(signature, chunks) == [kind |-> "bytes", signature |-> signature, chunks |-> chunks]

\* A zlib stream: its header, blocks of stored bytes, and its checksum.
StreamHeader == [part |-> "header"]
StreamBlock(bs) == [part |-> "block", bytes |-> bs]
StreamCheck == [part |-> "check"]
StreamJunk == [part |-> "junk"]

Threw(message) == [kind |-> "threw", message |-> message]

\* inflateSync of node:zlib: the bytes of a well-formed stream; it throws on
\* any other input, the empty buffer included.
inflateSync(compressed) ==
    IF compressed = <<>> THEN Threw("unexpected end of file")
    ELSE IF compressed[1] # StreamHeader THEN Threw("incorrect header check")
    ELSE IF compressed[Len(compressed)] # StreamCheck THEN Threw("unexpected end of file")
    ELSE IF \E i \in 2..(Len(compressed) - 1) : compressed[i].part # "block"
         THEN Threw("invalid block type")
    ELSE [kind |-> "buffer",
          bytes |-> Flatten([i \in 1..(Len(compressed) - 2) |-> compressed[i + 1].bytes])]

paethPredictor(a, b, c) ==
    LET p == a + b - c
        Abs(v) == IF v < 0 THEN 0 - v ELSE v
        pa == Abs(p - a)
        pb == Abs(p - b)
        pc2 == Abs(p - c)
    IN  IF pa <= pb /\ pa <= pc2 THEN a
        ELSE IF pb <= pc2 THEN b
        ELSE c

\* applyFilter with the average of filter type 3 rounded up.
ApplyFilterAverageRoundingUp(filterType, rawByte, left, up, upLeft) ==
    CASE filterType = 0 -> rawByte
      [] filterType = 1 -> (rawByte + left) % 256
      [] filterType = 2 -> (rawByte + up) % 256
      [] filterType = 3 -> (rawByte + ((left + up + 1) \div 2)) % 256
      [] filterType = 4 -> (rawByte + paethPredictor(left, up, upLeft)) % 256
      [] OTHER -> rawByte

applyFilter(filterType, rawByte, left, up, upLeft) ==
    CASE filterType = 0 -> rawByte
      [] filterType = 1 -> (rawByte + left) % 256
      [] filterType = 2 -> (rawByte + up) % 256
      [] filterType = 3 -> (rawByte + ((left + up) \div 2)) % 256
      [] filterType = 4 -> (rawByte + paethPredictor(left, up, upLeft)) % 256
      [] OTHER -> rawByte

\* The chunk loop of decodePng from chunk i on: the header fields and the
\* IDAT data gathered, or nothing when a chunk runs past the end of the file.
RECURSIVE ReadChunks(_, _, _)
ReadChunks(chunks, i, read) ==
    IF i > Len(chunks) THEN read
    ELSE LET chunk == chunks[i]
         IN  IF ~chunk.whole THEN Undefined
             ELSE IF chunk.type = "IHDR"
                  THEN ReadChunks(chunks, i + 1,
                                  [read EXCEPT !.width = chunk.data.width,
                                               !.height = chunk.data.height,
                                               !.bitDepth = chunk.data.bitDepth,
                                               !.colorType = chunk.data.colorType])
             ELSE IF chunk.type = "IDAT"
                  THEN ReadChunks(chunks, i + 1,
                                  [read EXCEPT !.idatChunks = Append(@, chunk.data)])
             ELSE IF chunk.type = "IEND" THEN read
             ELSE ReadChunks(chunks, i + 1, read)

\* The inner loop of the reconstruction of decodePng, from byte x of row y on:
\* the bytes of the row, given the rows above it in reconstructed.
RECURSIVE ReconstructRow(_, _, _, _, _, _, _)
ReconstructRow(raw, stride, bpp, y, x, reconstructed, row) ==
    IF x = stride THEN row
    ELSE LET srcOffset == y * (stride + 1) + 1
             rowStart == y * stride
             filterType == raw[srcOffset]
             rawByte == raw[srcOffset + x + 1]
             left == IF x >= bpp THEN row[x - bpp + 1] ELSE 0
             up == IF y > 0 THEN reconstructed[rowStart - stride + x + 1] ELSE 0
             upLeft == IF y > 0 /\ x >= bpp
                       THEN reconstructed[rowStart - stride + x - bpp + 1] ELSE 0
         IN  ReconstructRow(raw, stride, bpp, y, x + 1, reconstructed,
                            Append(row, applyFilter(filterType, rawByte, left, up, upLeft)))

\* The reconstruction loop of decodePng from row y on (raw holds a filter type
\* before every row).
RECURSIVE Reconstruct(_, _, _, _, _, _)
Reconstruct(raw, stride, bpp, y, height, reconstructed) ==
    IF y = height THEN reconstructed
    ELSE Reconstruct(raw, stride, bpp, y + 1, height,
                     reconstructed \o ReconstructRow(raw, stride, bpp, y, 0,
                                                     reconstructed, <<>>))

\* The RGBA bytes of the reconstructed raster: as they are for colour type 6,
\* with an alpha of 255 after every three bytes for colour type 2.
ToRgba(reconstructed, colorType) ==
    IF colorType = 6 THEN reconstructed
    ELSE [j \in 1..((Len(reconstructed) \div 3) * 4) |->
             IF (j - 1) % 4 = 3 THEN 255
             ELSE reconstructed[((j - 1) \div 4) * 3 + ((j - 1) % 4) + 1]]

decodePng(bytes) ==
    IF Len(bytes.signature) < 16 \/ bytes.signature # SIGNATURE THEN Undefined
    ELSE LET read == ReadChunks(bytes.chunks, 1,
                                [width |-> 0, height |-> 0, bitDepth |-> 0,
                                 colorType |-> 0, idatChunks |-> <<>>])
         IN  IF read = Undefined THEN Undefined
             ELSE IF \/ read.width <= 0
                     \/ read.height <= 0
                     \/ read.bitDepth # 8
                     \/ (read.colorType # 6 /\ read.colorType # 2)
                     \/ Len(read.idatChunks) = 0
                  THEN Undefined
             ELSE LET raw == inflateSync(Flatten(read.idatChunks))
                      bpp == IF read.colorType = 6 THEN 4 ELSE 3
                      stride == read.width * bpp
                      expected == read.height * (stride + 1)
                  IN  IF raw.kind = "threw" THEN raw
                      ELSE IF Len(raw.bytes) < expected THEN Undefined
                      ELSE [kind |-> "decoded", width |-> read.width,
                            height |-> read.height,
                            rgba |-> ToRgba(Reconstruct(raw.bytes, stride, bpp, 0,
                                                        read.height, <<>>),
                                            read.colorType)]

(***************************************************************************)
(* Pictures and the files that hold them, written as buildPng of           *)
(* test/screenshot-sampler.test.ts writes them, with a filter type chosen  *)
(* for every row.                                                          *)
(***************************************************************************)
Picture(width, height, colorType, pixels, filterTypes) ==
    [kind |-> "picture", width |-> width, height |-> height, colorType |-> colorType,
     pixels |-> pixels, filterTypes |-> filterTypes]

BytesPerPixel(colorType) == IF colorType = 6 THEN 4 ELSE 3

\* Byte x (from 0) of row y (from 0) of a picture's raster; 0 outside it.
RasterByte(p, y, x) ==
    IF y < 0 \/ x < 0 THEN 0
    ELSE p.pixels[y + 1][(x \div BytesPerPixel(p.colorType)) + 1]
                 [(x % BytesPerPixel(p.colorType)) + 1]

\* The Paeth choice of the PNG filters: whichever of left, up and upper-left
\* is nearest to left + up - upper-left, in this order on ties.
PaethChoice(left, up, upperLeft) ==
    LET estimate == left + up - upperLeft
        Distance(v) == IF estimate < v THEN v - estimate ELSE estimate - v
    IN  IF Distance(left) <= Distance(up) /\ Distance(left) <= Distance(upperLeft)
        THEN left
        ELSE IF Distance(up) <= Distance(upperLeft) THEN up
        ELSE upperLeft

Predictor(filterType, left, up, upperLeft) ==
    CASE filterType = 0 -> 0
      [] filterType = 1 -> left
      [] filterType = 2 -> up
      [] filterType = 3 -> (left + up) \div 2
      [] filterType = 4 -> PaethChoice(left, up, upperLeft)

\* The filtered rows of a picture: a filter type, then every byte of the row
\* less its predictor, modulo 256.
FilteredRow(p, y) ==
    LET bpp == BytesPerPixel(p.colorType)
        filterType == p.filterTypes[y + 1]
    IN  <<filterType>> \o
        [k \in 1..(p.width * bpp) |->
            LET x == k - 1
            IN  (RasterByte(p, y, x) + 256
                   - Predictor(filterType, RasterByte(p, y, x - bpp),
                               RasterByte(p, y - 1, x),
                               IF x - bpp < 0 THEN 0
                               ELSE RasterByte(p, y - 1, x - bpp))) % 256]

Filtered(p) == Flatten([r \in 1..p.height |-> FilteredRow(p, r - 1)])

deflateSync(raw) == <<StreamHeader, StreamBlock(raw), StreamCheck>>

IHDR(width, height, bitDepth, colorType) ==
    Chunk("IHDR", [width |-> width, height |-> height, bitDepth |-> bitDepth,
                   colorType |-> colorType], TRUE)

buildPng(p) ==
    Bytes(SIGNATURE,
          <<IHDR(p.width, p.height, 8, p.colorType),
            Chunk("IDAT", deflateSync(Filtered(p)), TRUE),
            Chunk("IEND", <<>>, TRUE)>>)

Screenshot(bytes, ext) == [kind |-> "screenshot", bytes |-> bytes, ext |-> ext]

\* Pixels whose channels wrap around 256 under every predictor.
Opaque == <<255, 0, 0, 255>>
Hollow == <<0, 100, 0, 0>>
Misty == <<128, 200, 50, 128>>
Pixels == {Opaque, Hollow, Misty}

(***************************************************************************)
(* SpecDecode: decodePng on the files of pictures one or two pixels wide,  *)
(* in both colour types (two of the pixels where the colour type has no    *)
(* alpha), with every choice of filter type per row.                      *)
(***************************************************************************)
MaxRows == 2

InitDecode ==
    /\ pc = "ready"
    /\ result = NotCalled
    /\ \E width \in {1, 2}, height \in 1..MaxRows, colorType \in {2, 6} :
          \E pixels \in [1..height -> [1..width ->
                             IF colorType = 6 THEN Pixels ELSE {Opaque, Misty}]],
             filterTypes \in [1..height -> 0..4] :
                /\ payload = Picture(width, height, colorType, pixels, filterTypes)
                /\ screenshot = Screenshot(buildPng(payload), "png")
    /\ ResolverIdle
    /\ RulesIdle
    /\ GateIdle
    /\ PolicyIdle

DecodePngCall ==
    /\ pc = "ready"
    /\ result' = decodePng(screenshot.bytes)
    /\ pc' = "decoded"
    /\ UNCHANGED <<findings, failOn, suppressions, now, target, subject, context, payload,
                   screenshot, current, stood>>

NextDecode == DecodePngCall

SpecDecode == InitDecode /\ [][NextDecode]_vars

\* The raw rows held by the file of the state, as the decoder inflates them.
RawRows == screenshot.bytes.chunks[2].data[2].bytes

\* Byte x of row y of the decoded raster, 0 outside the image; the decoded
\* raster has four bytes per pixel, the raw rows those of the colour type.
DecodedByte(y, x) ==
    LET bpp == BytesPerPixel(payload.colorType)
    IN  IF y < 0 \/ x < 0 THEN 0
        ELSE result.rgba[(y * payload.width + (x \div bpp)) * 4 + (x % bpp) + 1]

\* C19: every byte the decoder reconstructs is the filtered byte plus the
\* predictor of the row's filter type, modulo 256, the predictor taken from
\* the reconstructed bytes to the left, above and above-left (0 outside the
\* image); and decoding the filtered rows of a picture gives back every
\* channel of every pixel, with an alpha of 255 where the colour type has none.
C19_DecodingUndoesEveryFilter ==
    pc = "decoded" =>
        /\ result.kind = "decoded"
        /\ result.width = payload.width /\ result.height = payload.height
        /\ Len(result.rgba) = payload.width * payload.height * 4
        /\ LET bpp == BytesPerPixel(payload.colorType)
               stride == payload.width * bpp
           IN  \A y \in 0..(payload.height - 1), x \in 0..(stride - 1) :
                  DecodedByte(y, x) =
                      (RawRows[y * (stride + 1) + x + 2]
                         + Predictor(RawRows[y * (stride + 1) + 1],
                                     DecodedByte(y, x - bpp), DecodedByte(y - 1, x),
                                     IF x - bpp < 0 THEN 0
                                     ELSE DecodedByte(y - 1, x - bpp))) % 256
        /\ \A y \in 1..payload.height, x \in 1..payload.width, c \in 1..4 :
              result.rgba[((y - 1) * payload.width + (x - 1)) * 4 + c] =
                  IF c = 4 /\ payload.colorType = 2 THEN 255
                  ELSE payload.pixels[y][x][c]

\* A picture of two rows and two columns whose second row is filtered by the
\* average or the Paeth choice of differing neighbours has been decoded.
C19_Witness ==
    /\ pc = "decoded"
    /\ result.kind = "decoded"
    /\ payload.width = 2 /\ payload.height = 2
    /\ payload.filterTypes[1] \in {1, 2} /\ payload.filterTypes[2] \in {3, 4}
    /\ payload.pixels[1][1] # payload.pixels[1][2]
    /\ payload.pixels[1][2] # payload.pixels[2][1]
    /\ payload.pixels[2][2] = Opaque

(***************************************************************************)
(* The background sampler of core/screenshot-sampler.ts.  Bounds are in    *)
(* quarters of a pixel, pixel coordinates whole, the alpha of a sampled    *)
(* colour in thousandths (rounded down).                                   *)
(***************************************************************************)
MathFloor(quarters) == quarters \div 4
MathCeil(quarters) == (quarters + 3) \div 4

accumulatedBoundsById(t) == AccumulateFrom(t, 1, <<>>)

samplePixel(image, x, y) ==
    IF x < 0 \/ y < 0 \/ x >= image.width \/ y >= image.height THEN Undefined
    ELSE LET idx == (y * image.width + x) * 4
         IN  Rgba(image.rgba[idx + 1], image.rgba[idx + 2], image.rgba[idx + 3],
                  (image.rgba[idx + 4] * 1000) \div 255)

\* rgbDistance(a, b) < limit
RgbDistanceBelow(a, b, limit) ==
    (a.r - b.r) * (a.r - b.r) + (a.g - b.g) * (a.g - b.g) + (a.b - b.b) * (a.b - b.b)
        < limit * limit

\* The ring of points sampled around a rectangle, in the order of the source.
RingPoints(bounds) ==
    LET left == MathFloor(bounds.x)
        top == MathFloor(bounds.y)
        right == MathCeil(bounds.x + bounds.width)
        bottom == MathCeil(bounds.y + bounds.height)
        midX == (left + right) \div 2
        midY == (top + bottom) \div 2
        pad == 2
    IN  <<<<left - pad, midY>>, <<right + pad, midY>>,
          <<midX, top - pad>>, <<midX, bottom + pad>>,
          <<left - pad, top - pad>>, <<right + pad, top - pad>>,
          <<left - pad, bottom + pad>>, <<right + pad, bottom + pad>>>>

\* The colours kept by the loop over the points, from point i on.
RECURSIVE KeptColors(_, _, _, _)
KeptColors(image, points, i, foreground) ==
    IF i > Len(points) THEN <<>>
    ELSE LET clampedX == Clamp(points[i][1], 0, image.width - 1)
             clampedY == Clamp(points[i][2], 0, image.height - 1)
             color == samplePixel(image, clampedX, clampedY)
             rest == KeptColors(image, points, i + 1, foreground)
         IN  IF ~Truthy(color) \/ color.a < 100 THEN rest
             ELSE IF Truthy(foreground) /\ RgbDistanceBelow(color, foreground, 12) THEN rest
             ELSE <<color>> \o rest

BucketKey(color) ==
    <<MathRound(color.r, 8), MathRound(color.g, 8), MathRound(color.b, 8)>>

sampleBackgroundAroundRect(image, bounds, foreground) ==
    LET colors == KeptColors(image, RingPoints(bounds), 1, foreground)
        Count(i) == Cardinality({j \in DOMAIN colors :
                                    BucketKey(colors[j]) = BucketKey(colors[i])})
        \* the first colour of a bucket: where the bucket was created
        Opens(i) == \A j \in 1..(i - 1) : BucketKey(colors[j]) # BucketKey(colors[i])
        best == CHOOSE i \in DOMAIN colors :
                    /\ Opens(i)
                    /\ \A j \in DOMAIN colors :
                          Opens(j) => \/ Count(j) < Count(i)
                                      \/ Count(j) = Count(i) /\ i <= j
    IN  IF Len(colors) = 0 THEN Undefined ELSE colors[best]

\* The function returned by createScreenshotBackgroundSampler, as the values
\* it closes over.
BackgroundSampler(decoded, accumulated, rootBounds) ==
    [kind |-> "sampler", decoded |-> decoded, accumulated |-> accumulated,
     rootBounds |-> rootBounds]

createScreenshotBackgroundSampler(t, shot) ==
    IF ~Truthy(Get(shot, "bytes")) \/ shot.ext # "png" THEN Undefined
    ELSE LET decoded == decodePng(shot.bytes)
         IN  IF decoded.kind = "threw" THEN decoded
             ELSE IF ~Truthy(decoded) THEN Undefined
             ELSE LET accumulated == accumulatedBoundsById(t)
                  IN  IF t.nodeId \notin DOMAIN accumulated THEN Undefined
                      ELSE BackgroundSampler(decoded, accumulated, accumulated[t.nodeId])

\* A call of the function createScreenshotBackgroundSampler returned.
SampleBackground(sampler, node, foreground) ==
    IF node.id \notin DOMAIN sampler.accumulated THEN Undefined
    ELSE LET absolute == sampler.accumulated[node.id]
             local == Rect(absolute.x - sampler.rootBounds.x,
                           absolute.y - sampler.rootBounds.y,
                           absolute.width, absolute.height)
         IN  sampleBackgroundAroundRect(sampler.decoded, local, foreground)

(***************************************************************************)
(* SpecSample: the sampler made from the screenshot of a root frame eight  *)
(* pixels square with a text layer in it, and asked about the layer.  The  *)
(* picture is transparent but for the points of the layer's ring in the    *)
(* middle of the frame.                                                    *)
(***************************************************************************)
Side == 8

Transparent == <<0, 0, 0, 0>>
Paper == <<248, 249, 250, 255>>
Scarlet == <<255, 0, 0, 255>>
InkEdge == <<20, 40, 120, 255>>
Ink == Rgba(16, 43, 124, 1000)

\* The layer in the middle of the frame, and one in its upper left corner.
Middle == Rect(12, 12, 8, 8)
Cornered == Rect(0, 0, 8, 8)

SidePoints == RingPoints(Middle)

\* A picture whose pixels at the eight ring points of the middle layer are as
\* given, in the order of the ring.
RingPicture(colours) ==
    Picture(Side, Side, 6,
            [y \in 1..Side |-> [x \in 1..Side |->
                IF \E k \in 1..8 : SidePoints[k] = <<x - 1, y - 1>>
                THEN colours[CHOOSE k \in 1..8 : SidePoints[k] = <<x - 1, y - 1>>]
                ELSE Transparent]],
            [y \in 1..Side |-> 0])

SampledTarget(rootBounds, layerBounds) ==
    [nodeId |-> 1] @@
    MakeRuleTarget(Plain("FRAME", rootBounds, <<>>),
                   <<RuleKind("TEXT", TRUE, layerBounds, <<Ink>>, <<>>, FALSE,
                              Undefined, Undefined)>>,
                   Undefined)

InitSample ==
    /\ pc = "ready"
    /\ result = NotCalled
    /\ \E rootBounds \in {Rect(0, 0, 4 * Side, 4 * Side), Rect(40, 20, 4 * Side, 4 * Side)},
          layerBounds \in {Middle, Cornered} :
             target = SampledTarget(rootBounds, layerBounds)
    /\ \E sides \in [1..4 -> {Transparent, Paper, InkEdge}],
          corners \in [1..4 -> {Transparent, Scarlet}] :
             /\ payload = RingPicture(sides \o corners)
             /\ screenshot = Screenshot(buildPng(payload), "png")
    /\ subject = 2
    /\ current = 0
    /\ stood = {}
    /\ RulesIdle
    /\ GateIdle
    /\ PolicyIdle

CreateScreenshotBackgroundSamplerCall ==
    /\ pc = "ready"
    /\ context' = [kind |-> "ctx",
                   sampleBackgroundColor |->
                       createScreenshotBackgroundSampler(target, screenshot),
                   sampleForegroundColor |-> Undefined]
    /\ pc' = "created"
    /\ UNCHANGED <<result, findings, failOn, suppressions, now, target, subject, payload,
                   screenshot, current, stood>>

SampleBackgroundCall ==
    /\ pc = "created"
    /\ context.sampleBackgroundColor.kind = "sampler"
    /\ \E foreground \in {Undefined, firstFill(target.nodes[subject])} :
          result' = [kind |-> "returned",
                     returned |-> SampleBackground(context.sampleBackgroundColor,
                                                   target.nodes[subject], foreground)]
    /\ pc' = "sampled"
    /\ UNCHANGED <<findings, failOn, suppressions, now, target, subject, context, payload,
                   screenshot, current, stood>>

NextSample == CreateScreenshotBackgroundSamplerCall \/ SampleBackgroundCall

SpecSample == InitSample /\ [][NextSample]_vars

\* The rectangle of the sampled layer in the picture, in whole pixels.
LayerBox ==
    LET b == target.nodes[subject].bounds
    IN  [left |-> b.x \div 4, top |-> b.y \div 4,
         right |-> (b.x + b.width + 3) \div 4, bottom |-> (b.y + b.height + 3) \div 4]

\* Pixel (x, y) lies diagonally off a corner of the layer: beside it in both
\* directions.
OffCorner(x, y) ==
    /\ x < LayerBox.left \/ x >= LayerBox.right
    /\ y < LayerBox.top \/ y >= LayerBox.bottom

\* C20: when every pixel that is not fully transparent lies diagonally off a
\* corner of the layer (so every pixel straight left, right, above and below
\* it is fully transparent), the sampler returns no colour.
C20_CornerOnlyPixelsGiveNoSample ==
    (/\ pc = "sampled"
     /\ \A y \in 1..payload.height, x \in 1..payload.width :
           payload.pixels[y][x][4] # 0 => OffCorner(x - 1, y - 1))
        => result.returned = Undefined

(***************************************************************************)
(* The body of the loop of runAudit for one target, from the normalized    *)
(* target on, under a configuration without entries for the rules: the     *)
(* samplers, the rules, the suppressions, the target's result; and the     *)
(* result pushed by its catch clause.                                      *)
(***************************************************************************)
\* The function returned by createScreenshotForegroundSampler.
ForegroundSampler(decoded, accumulated, rootBounds) ==
    [kind |-> "foreground-sampler", decoded |-> decoded, accumulated |-> accumulated,
     rootBounds |-> rootBounds]

\* createScreenshotForegroundSampler: unavailable where the background sampler
\* is, from the same decoder.
createScreenshotForegroundSampler(t, shot) ==
    IF ~Truthy(Get(shot, "bytes")) \/ shot.ext # "png" THEN Undefined
    ELSE LET decoded == decodePng(shot.bytes)
         IN  IF decoded.kind = "threw" THEN decoded
             ELSE IF ~Truthy(decoded) THEN Undefined
             ELSE LET accumulated == accumulatedBoundsById(t)
                  IN  IF t.nodeId \notin DOMAIN accumulated THEN Undefined
                      ELSE ForegroundSampler(decoded, accumulated, accumulated[t.nodeId])

\* executeRules over RULES, all enabled.
executeRules(t, c) ==
    evaluateTextContrast(t, c).returned \o evaluateNonTextContrast(t)
        \o evaluateTargetSize(t)

severitySortValue(severity) ==
    CASE severity = "blocker" -> 0
      [] severity = "critical" -> 1
      [] severity = "major" -> 2
      [] severity = "minor" -> 3

\* The place of a rule's id among the rule ids under localeCompare.
RuleIdRank(ruleId) ==
    CASE ruleId = NonTextRuleId -> 1
      [] ruleId = TextRuleId -> 2
      [] ruleId = SizeRuleId -> 3

\* The comparator of sortFindings: below 0, 0 or above 0.
CompareFindings(a, b) ==
    LET severityDiff == severitySortValue(a.severity) - severitySortValue(b.severity)
    IN  IF severityDiff # 0 THEN severityDiff
        ELSE IF RuleIdRank(a.ruleId) # RuleIdRank(b.ruleId)
             THEN RuleIdRank(a.ruleId) - RuleIdRank(b.ruleId)
        ELSE a.nodeId - b.nodeId

\* sortFindings: a stable sort by the comparator.
sortFindings(fs) ==
    LET Place(i) == 1 + Cardinality({j \in DOMAIN fs :
                                        \/ CompareFindings(fs[j], fs[i]) < 0
                                        \/ CompareFindings(fs[j], fs[i]) = 0 /\ j < i})
    IN  [k \in DOMAIN fs |-> fs[CHOOSE i \in DOMAIN fs : Place(i) = k]]

TargetResult(fs, warnings) ==
    [kind |-> "target-result", findings |-> fs, warnings |-> warnings]

buildFetchFailureTargetResult(errorMessage) ==
    [kind |-> "fetch-failure", findings |-> <<>>,
     warnings |-> <<"Fetch/audit fallback engaged: " \o errorMessage>>]

(***************************************************************************)
(* SpecAudit: the audit of a target whose screenshot is absent, not a PNG  *)
(* file, or a file the decoder cannot read.                                *)
(***************************************************************************)
\* One opaque pixel, as the file of a screenshot should hold it.
Dot == Picture(1, 1, 6, <<<<Opaque>>>>, <<0>>)

WithChunks(chunks) == Bytes(SIGNATURE, chunks)
IDAT(data) == Chunk("IDAT", data, TRUE)
IEND == Chunk("IEND", <<>>, TRUE)

\* Files the decoder gives up on, by what is wrong with them.
WrongSignature == Bytes("ffd8ffe000104a46", buildPng(Dot).chunks)
ShortFile == Bytes("89504e47", <<>>)
TruncatedChunk ==
    WithChunks(<<IHDR(1, 1, 8, 6), Chunk("IDAT", deflateSync(Filtered(Dot)), FALSE)>>)
DeepBits == WithChunks(<<IHDR(1, 1, 16, 6), IDAT(deflateSync(Filtered(Dot))), IEND>>)
Paletted == WithChunks(<<IHDR(1, 1, 8, 3), IDAT(deflateSync(Filtered(Dot))), IEND>>)
Flat == WithChunks(<<IHDR(0, 1, 8, 6), IDAT(deflateSync(Filtered(Dot))), IEND>>)
NoData == WithChunks(<<IHDR(1, 1, 8, 6), IEND>>)
DataAfterEnd == WithChunks(<<IHDR(1, 1, 8, 6), IEND, IDAT(deflateSync(Filtered(Dot)))>>)
ShortRows == WithChunks(<<IHDR(2, 2, 8, 6), IDAT(deflateSync(Filtered(Dot))), IEND>>)
CorruptData == WithChunks(<<IHDR(1, 1, 8, 6), IDAT(<<StreamJunk, StreamJunk>>), IEND>>)
CutData ==
    WithChunks(<<IHDR(1, 1, 8, 6), IDAT(<<StreamHeader, StreamBlock(Filtered(Dot))>>),
                 IEND>>)
EmptyData == WithChunks(<<IHDR(1, 1, 8, 6), IDAT(<<>>), IEND>>)

UnreadableFiles ==
    {WrongSignature, ShortFile, TruncatedChunk, DeepBits, Paletted, Flat, NoData,
     DataAfterEnd, ShortRows, CorruptData, CutData, EmptyData}

\* A control that is too small and too faint.
SmallControl ==
    RuleKind("INSTANCE", FALSE, Rect(16, 64, 40, 40), <<G119>>, <<>>, TRUE,
             Undefined, Undefined)

AuditedTarget(root, children, fallback) ==
    LET t == MakeRuleTarget(root, children, fallback)
    IN  [nodeId |-> 1, warnings |-> <<>>,
         nodes |-> [k \in DOMAIN t.nodes |-> [kind |-> "node"] @@ t.nodes[k]]] @@ t

InitAudit ==
    /\ pc = "ready"
    /\ result = NotCalled
    /\ \E root \in RootFrames, text \in TextKinds, more \in {<<>>, <<SmallControl>>},
          fb \in {Undefined, DocumentBackground} :
             target = AuditedTarget(root, <<text>> \o more, fb)
    /\ \E bytes \in UnreadableFiles :
          screenshot \in {Undefined, Screenshot(buildPng(Dot), "jpg"),
                          Screenshot(bytes, "png")}
    /\ payload = NoPayload
    /\ subject = 0
    /\ current = 0
    /\ stood = {}
    /\ RulesIdle
    /\ GateIdle
    /\ PolicyIdle

\* The two samplers are made; an exception of either goes to the catch clause,
\* which pushes the target's result.
CreateSamplersCall ==
    /\ pc = "ready"
    /\ \E sampleBackgroundColor \in {createScreenshotBackgroundSampler(target, screenshot)} :
          IF sampleBackgroundColor.kind = "threw"
          THEN /\ result' = buildFetchFailureTargetResult(sampleBackgroundColor.message)
               /\ pc' = "audited"
               /\ UNCHANGED context
          ELSE \E sampleForegroundColor \in
                      {createScreenshotForegroundSampler(target, screenshot)} :
                  IF sampleForegroundColor.kind = "threw"
                  THEN /\ result' =
                             buildFetchFailureTargetResult(sampleForegroundColor.message)
                       /\ pc' = "audited"
                       /\ UNCHANGED context
                  ELSE /\ context' = [kind |-> "ctx",
                                      sampleBackgroundColor |-> sampleBackgroundColor,
                                      sampleForegroundColor |-> sampleForegroundColor]
                       /\ pc' = "rules"
                       /\ UNCHANGED result
    /\ UNCHANGED <<findings, failOn, suppressions, now, target, subject, payload,
                   screenshot, current, stood>>

\* The stage "rules": rawFindings.
ExecuteRulesCall ==
    /\ pc = "rules"
    /\ result' = [kind |-> "raw-findings", rawFindings |-> executeRules(target, context)]
    /\ pc' = "suppressions"
    /\ UNCHANGED <<findings, failOn, suppressions, now, target, subject, context, payload,
                   screenshot, current, stood>>

\* The stages "suppressions" and "target-finalize": the target's result.
FinalizeTargetCall ==
    /\ pc = "suppressions"
    /\ \E suppressionResult \in {applySuppressions(result.rawFindings, suppressions, now)} :
          result' = TargetResult(sortFindings(suppressionResult.findings),
                                 target.warnings \o suppressionResult.warnings)
    /\ pc' = "audited"
    /\ UNCHANGED <<findings, failOn, suppressions, now, target, subject, context, payload,
                   screenshot, current, stood>>

NextAudit == CreateSamplersCall \/ ExecuteRulesCall \/ FinalizeTargetCall

SpecAudit == InitAudit /\ [][NextAudit]_vars

\* What the claim counts as bytes that cannot be decoded: a wrong or short
\* signature, a chunk cut off by the end of the file, a bit depth other than
\* 8, a colour type other than 2 and 6, no compressed data, or compressed
\* data that is not a whole zlib stream.
ChunksRead(bytes) ==
    LET chunks == bytes.chunks
        ends == {i \in DOMAIN chunks : chunks[i].type = "IEND" \/ ~chunks[i].whole}
        last == IF ends = {} THEN Len(chunks) ELSE CHOOSE i \in ends : \A j \in ends : i <= j
    IN  SubSeq(chunks, 1, last)

DataRead(bytes) ==
    LET read == ChunksRead(bytes)
        idat == InOrder({i \in DOMAIN read : read[i].type = "IDAT"})
    IN  Flatten([k \in DOMAIN idat |-> read[idat[k]].data])

WholeStream(data) ==
    /\ Len(data) >= 2
    /\ data[1] = StreamHeader
    /\ data[Len(data)] = StreamCheck
    /\ \A i \in 2..(Len(data) - 1) : data[i].part = "block"

CannotBeDecoded(bytes) ==
    \/ bytes.signature # SIGNATURE
    \/ \E i \in DOMAIN ChunksRead(bytes) :
          LET chunk == ChunksRead(bytes)[i]
          IN  \/ ~chunk.whole
              \/ chunk.type = "IHDR" /\ chunk.data.bitDepth # 8
              \/ chunk.type = "IHDR" /\ chunk.data.colorType \notin {2, 6}
    \/ ~WholeStream(DataRead(bytes))

NoSamplers ==
    [kind |-> "ctx", sampleBackgroundColor |-> Undefined,
     sampleForegroundColor |-> Undefined]

\* C18: when the bytes of the screenshot cannot be decoded, making the
\* sampler raises no exception and gives no sampler, and the target's result
\* holds the findings of its rules evaluated without samplers.
C18_UndecodableScreenshotLeavesRulesRunning ==
    (/\ pc = "audited"
     /\ Truthy(screenshot)
     /\ screenshot.ext = "png"
     /\ CannotBeDecoded(screenshot.bytes))
        => /\ result.kind = "target-result"
           /\ context = NoSamplers
           /\ \A reported \in {executeRules(target, NoSamplers)} :
                 result.findings = sortFindings(reported)

(***************************************************************************)
(* The colour recommender (recommendDesignSystemColorsForContrast and its  *)
(* helpers).  designSystemColors is the sequence of the object's entries   *)
(* in insertion order; ratios and thresholds are in thousandths, distances *)
(* in hundredths (cut).                                                    *)
(***************************************************************************)
HexDigits == "0123456789ABCDEF"

HexValue ==
    [c \in {SubSeq(HexDigits, i, i) : i \in 1..16} |->
        (CHOOSE i \in 1..16 : SubSeq(HexDigits, i, i) = c) - 1]

\* [0-9A-F] under the i flag
IsHexDigit(c) == toUpperCase(c) \in DOMAIN HexValue

AllHexDigits(s) == \A i \in 1..Len(s) : IsHexDigit(SubSeq(s, i, i))

RECURSIVE TrimString(_)
\* String.prototype.trim on a string
TrimString(s) ==
    IF s = "" THEN ""
    ELSE IF SubSeq(s, 1, 1) \in Whitespace THEN TrimString(SubSeq(s, 2, Len(s)))
    ELSE IF SubSeq(s, Len(s), Len(s)) \in Whitespace
         THEN TrimString(SubSeq(s, 1, Len(s) - 1))
    ELSE s

RECURSIVE Doubled(_)
\* every character of s written twice
Doubled(s) ==
    IF s = "" THEN ""
    ELSE SubSeq(s, 1, 1) \o SubSeq(s, 1, 1) \o Doubled(SubSeq(s, 2, Len(s)))

normalizeHex(value) ==
    LET trimmed == TrimString(value)
        short == Len(trimmed) \in {4, 5} /\ SubSeq(trimmed, 1, 1) = "#"
                    /\ AllHexDigits(SubSeq(trimmed, 2, Len(trimmed)))
    IN  IF short THEN toUpperCase("#" \o Doubled(SubSeq(trimmed, 2, Len(trimmed))))
        ELSE toUpperCase(trimmed)

isValidHexColor(hex) ==
    /\ Len(hex) \in {7, 9}
    /\ SubSeq(hex, 1, 1) = "#"
    /\ AllHexDigits(SubSeq(hex, 2, Len(hex)))

\* parseInt of two hexadecimal digits
ParseHexByte(s) == 16 * HexValue[SubSeq(s, 1, 1)] + HexValue[SubSeq(s, 2, 2)]

parseHexColor(value) ==
    LET hex == normalizeHex(value)
    IN  IF ~isValidHexColor(hex) THEN Undefined
        ELSE Rgba(ParseHexByte(SubSeq(hex, 2, 3)), ParseHexByte(SubSeq(hex, 4, 5)),
                  ParseHexByte(SubSeq(hex, 6, 7)),
                  IF Len(hex) = 9 THEN (ParseHexByte(SubSeq(hex, 8, 9)) * 1000) \div 255
                  ELSE 1000)

TokenColor(token, hex, color) ==
    [kind |-> "token", token |-> token, hex |-> hex, color |-> color]

RECURSIVE parseTokenColors(_)
parseTokenColors(designSystemColors) ==
    IF designSystemColors = <<>> THEN <<>>
    ELSE LET entry == Head(designSystemColors)
             color == parseHexColor(entry.hex)
         IN  (IF ~Truthy(color) THEN <<>>
              ELSE <<TokenColor(entry.token, normalizeHex(entry.hex), color)>>)
                 \o parseTokenColors(Tail(designSystemColors))

RECURSIVE SqrtBetween(_, _, _)
\* the largest k in lo..hi with k * k <= n
SqrtBetween(n, lo, hi) ==
    IF lo >= hi THEN lo
    ELSE LET mid == (lo + hi + 1) \div 2
         IN  IF mid * mid <= n THEN SqrtBetween(n, mid, hi)
             ELSE SqrtBetween(n, lo, mid - 1)

\* Math.sqrt(dr * dr + dg * dg + db * db), in hundredths
rgbDistance(a, b) ==
    SqrtBetween(((a.r - b.r) * (a.r - b.r) + (a.g - b.g) * (a.g - b.g)
                    + (a.b - b.b) * (a.b - b.b)) * 10000, 0, 46340)

Candidate(tokenColor, ratio, distance) ==
    [kind |-> "candidate", token |-> tokenColor.token, hex |-> tokenColor.hex,
     color |-> tokenColor.color, ratio |-> ratio, distance |-> distance]

\* the comparator of both candidate sorts: distance ascending, then ratio descending
CompareCandidates(a, b) ==
    IF a.distance - b.distance # 0 THEN a.distance - b.distance ELSE b.ratio - a.ratio

\* Array.prototype.sort (stable) under CompareCandidates
SortCandidates(cs) ==
    LET Before(i, j) ==
            \/ CompareCandidates(cs[i], cs[j]) < 0
            \/ CompareCandidates(cs[i], cs[j]) = 0 /\ i < j
        Place(i) == 1 + Cardinality({j \in DOMAIN cs : Before(j, i)})
    IN  [p \in DOMAIN cs |-> cs[CHOOSE i \in DOMAIN cs : Place(i) = p]]

RECURSIVE ForegroundPassing(_, _, _, _)
ForegroundPassing(tokenColors, foreground, background, threshold) ==
    IF tokenColors = <<>> THEN <<>>
    ELSE LET tokenColor == Head(tokenColors)
             ratio == contrastRatio(tokenColor.color, background)
         IN  (IF ratio < threshold THEN <<>>
              ELSE <<Candidate(tokenColor, ratio,
                               rgbDistance(tokenColor.color, foreground))>>)
                 \o ForegroundPassing(Tail(tokenColors), foreground, background, threshold)

findForegroundCandidates(tokenColors, foreground, background, threshold) ==
    SortCandidates(ForegroundPassing(tokenColors, foreground, background, threshold))

RECURSIVE BackgroundPassingAnyAlpha(_, _, _, _)
BackgroundPassingAnyAlpha(tokenColors, foreground, background, threshold) ==
    IF tokenColors = <<>> THEN <<>>
    ELSE LET tokenColor == Head(tokenColors)
             ratio == contrastRatio(foreground, tokenColor.color)
         IN  (IF ratio < threshold THEN <<>>
              ELSE <<Candidate(tokenColor, ratio,
                               rgbDistance(tokenColor.color, background))>>)
                 \o BackgroundPassingAnyAlpha(Tail(tokenColors), foreground, background,
                                              threshold)

RECURSIVE BackgroundPassing(_, _, _, _)
\* the loop of findBestBackgroundReplacement
BackgroundPassing(tokenColors, foreground, background, threshold) ==
    IF tokenColors = <<>> THEN <<>>
    ELSE LET tokenColor == Head(tokenColors)
             ratio == contrastRatio(foreground, tokenColor.color)
         IN  (IF tokenColor.color.a < 1000 \/ ratio < threshold THEN <<>>
              ELSE <<Candidate(tokenColor, ratio,
                               rgbDistance(tokenColor.color, background))>>)
                 \o BackgroundPassing(Tail(tokenColors), foreground, background, threshold)

FirstOf(cs) == IF cs = <<>> THEN Undefined ELSE cs[1]

FindBestBackgroundReplacementAnyAlpha(tokenColors, foreground, background, threshold) ==
    FirstOf(SortCandidates(
        BackgroundPassingAnyAlpha(tokenColors, foreground, background, threshold)))

findBestBackgroundReplacement(tokenColors, foreground, background, threshold) ==
    FirstOf(SortCandidates(
        BackgroundPassing(tokenColors, foreground, background, threshold)))

Pair(fgToken, bgToken, ratio, distance) ==
    [kind |-> "pair", fg |-> fgToken, bg |-> bgToken, ratio |-> ratio,
     distance |-> distance]

\* one pass of the inner loop of findBestTokenPair
PairStep(best, fgToken, bgToken, foreground, background, threshold) ==
    IF bgToken.color.a < 1000 THEN best
    ELSE LET ratio == contrastRatio(fgToken.color, bgToken.color)
             distance == rgbDistance(fgToken.color, foreground)
                            + rgbDistance(bgToken.color, background)
         IN  IF ratio < threshold THEN best
             ELSE IF \/ ~Truthy(best)
                     \/ distance < best.distance
                     \/ distance = best.distance /\ ratio > best.ratio
                  THEN Pair(fgToken, bgToken, ratio, distance)
                  ELSE best

RECURSIVE PairLoop(_, _, _, _, _, _)
\* the double loop of findBestTokenPair from its k-th pass on
PairLoop(best, k, tokenColors, foreground, background, threshold) ==
    IF k > Len(tokenColors) * Len(tokenColors) THEN best
    ELSE PairLoop(PairStep(best, tokenColors[((k - 1) \div Len(tokenColors)) + 1],
                           tokenColors[((k - 1) % Len(tokenColors)) + 1],
                           foreground, background, threshold),
                  k + 1, tokenColors, foreground, background, threshold)

findBestTokenPair(tokenColors, foreground, background, threshold) ==
    PairLoop(Undefined, 1, tokenColors, foreground, background, threshold)

NoTokenMessage(threshold) ==
    [kind |-> "string", text |-> "No design-system color token meets",
     threshold |-> threshold]

FixA(c) == [fix |-> "Fix A (replace foreground variable)", token |-> c.token,
            hex |-> c.hex, ratio |-> c.ratio]
FixB(c) == [fix |-> "Fix B (replace background variable)", token |-> c.token,
            hex |-> c.hex, ratio |-> c.ratio]
FixC(p) == [fix |-> "Fix C (replace both with variables)", token |-> p.fg.token,
            hex |-> p.fg.hex, bgToken |-> p.bg.token, bgHex |-> p.bg.hex,
            ratio |-> p.ratio]

Alternative(c) == [token |-> c.token, hex |-> c.hex, ratio |-> c.ratio]

\* the message built from the foreground candidates, the best background and the
\* best pair
Suggestions(fgCandidates, bestBackground, bestPair, threshold) ==
    IF fgCandidates = <<>> /\ ~Truthy(bestBackground) /\ ~Truthy(bestPair)
    THEN NoTokenMessage(threshold)
    ELSE [kind |-> "string", text |-> "Variable-aware fix suggestions",
          parts |-> (IF fgCandidates # <<>> THEN <<FixA(fgCandidates[1])>> ELSE <<>>)
                 \o (IF Truthy(bestBackground) THEN <<FixB(bestBackground)>> ELSE <<>>)
                 \o (IF Truthy(bestPair) THEN <<FixC(bestPair)>> ELSE <<>>)
                 \o (IF fgCandidates # <<>>
                     THEN <<[fix |-> "Other passing foreground variables",
                             alternatives |->
                                [i \in 1..(IF Len(fgCandidates) < 3 THEN Len(fgCandidates)
                                           ELSE 3) |-> Alternative(fgCandidates[i])]]>>
                     ELSE <<>>)]

\* designSystemColors is Undefined or [kind |-> "object", entries |-> <<...>>]
recommendDesignSystemColorsForContrast(designSystemColors, foreground, background, threshold) ==
    IF ~Truthy(designSystemColors) \/ designSystemColors.entries = <<>> THEN Undefined
    ELSE One({
        IF tokenColors = <<>> THEN Undefined
        ELSE Suggestions(
                findForegroundCandidates(tokenColors, foreground, background, threshold),
                findBestBackgroundReplacement(tokenColors, foreground, background,
                                              threshold),
                findBestTokenPair(tokenColors, foreground, background, threshold),
                threshold)
        : tokenColors \in {parseTokenColors(designSystemColors.entries)}})

(***************************************************************************)
(* SpecRecommend: recommendDesignSystemColorsForContrast is called once on *)
(* a palette of up to MaxTokens entries, a foreground, a background and a  *)
(* threshold.                                                              *)
(***************************************************************************)
MaxTokens == 2

TokenNames == <<"text.primary", "text.muted", "surface.canvas", "text.inverse">>

\* palette values: opaque, short, translucent, padded and unparseable ones
HexInputs ==
    {"#111827", "#9CA3AF", "#FFFFFF", "#000", "#00000080", "#fff8", " #f8fafc ",
     "#GGGGGG", "rgb(0,0,0)"}

TokenPalette(hexes) ==
    [kind |-> "object",
     entries |-> [i \in DOMAIN hexes |-> [token |-> TokenNames[i], hex |-> hexes[i]]]]

Palettes ==
    {Undefined} \cup
    UNION {{TokenPalette(hexes) : hexes \in [1..n -> HexInputs]} : n \in 0..MaxTokens}

Thresholds == {3000, 4500, 7000}

RecommendColors == {Rgba(156, 163, 175, 1000), Rgba(255, 255, 255, 1000),
                    Rgba(17, 24, 39, 1000)}

Arguments(designSystemColors, foreground, background, threshold) ==
    [kind |-> "arguments", designSystemColors |-> designSystemColors,
     foreground |-> foreground, background |-> background, threshold |-> threshold]

InitRecommend ==
    /\ pc = "ready"
    /\ result = Undefined
    /\ \E designSystemColors \in Palettes :
        \E foreground \in RecommendColors :
            \E background \in RecommendColors :
                \E threshold \in Thresholds :
                    payload = Arguments(designSystemColors, foreground, background,
                                        threshold)
    /\ screenshot = NoScreenshot
    /\ PolicyIdle /\ GateIdle /\ ResolverIdle /\ RulesIdle

RecommendCall ==
    /\ pc = "ready"
    /\ pc' = "recommended"
    /\ result' = recommendDesignSystemColorsForContrast(
                    payload.designSystemColors, payload.foreground, payload.background,
                    payload.threshold)
    /\ UNCHANGED <<findings, failOn, suppressions, now, target, subject, current, stood,
                   context, payload, screenshot>>

NextRecommend == RecommendCall

SpecRecommend == InitRecommend /\ [][NextRecommend]_vars

(***************************************************************************)
(* Claims about the colour recommender.                                    *)
(***************************************************************************)
Recommended == pc = "recommended"

SuggestedParts ==
    IF Recommended /\ Truthy(result) /\ result.text = "Variable-aware fix suggestions"
    THEN {result.parts[i] : i \in DOMAIN result.parts}
    ELSE {}

\* a normalised hex colour whose alpha channel is absent or FF
FullAlpha(hex) == Len(hex) = 7 \/ SubSeq(hex, 8, 9) = "FF"

\* C21: every token proposed as a background (Fix B, and the background half of
\* Fix C) has alpha exactly 1 and meets the required ratio with the foreground it
\* is paired with: the given foreground for Fix B, the pair's foreground token for
\* Fix C.
C21_ProposedBackgroundsAreOpaqueAndPass ==
    \A part \in SuggestedParts :
        /\ part.fix = "Fix B (replace background variable)" =>
            /\ FullAlpha(part.hex)
            /\ contrastRatio(payload.foreground, parseHexColor(part.hex))
                  >= payload.threshold
        /\ part.fix = "Fix C (replace both with variables)" =>
            /\ FullAlpha(part.bgHex)
            /\ contrastRatio(parseHexColor(part.hex), parseHexColor(part.bgHex))
                  >= payload.threshold

\* A translucent token is proposed as a foreground (Fix A) while a background and
\* a pair are proposed too.
C21_Witness ==
    /\ \E part \in SuggestedParts :
        part.fix = "Fix A (replace foreground variable)" /\ ~FullAlpha(part.hex)
    /\ \E part \in SuggestedParts : part.fix = "Fix B (replace background variable)"
    /\ \E part \in SuggestedParts : part.fix = "Fix C (replace both with variables)"

\* the palette given to the recommender has at least one entry
NonEmptyPalette ==
    Truthy(payload.designSystemColors) /\ payload.designSystemColors.entries # <<>>

\* no Fix A, Fix B or Fix C exists for the call's arguments: no palette value that
\* is a colour passes as a foreground, as an opaque background, or in a pair
NoTokenMeets ==
    LET colors == {parseHexColor(payload.designSystemColors.entries[i].hex) :
                        i \in DOMAIN payload.designSystemColors.entries} \ {Undefined}
    IN  /\ \A c \in colors : contrastRatio(c, payload.background) < payload.threshold
        /\ \A c \in colors :
              c.a < 1000 \/ contrastRatio(payload.foreground, c) < payload.threshold
        /\ \A f \in colors : \A b \in colors :
              b.a < 1000 \/ contrastRatio(f, b) < payload.threshold

\* C22: given a non-empty palette of which no token meets the required ratio, the
\* recommender returns the "No design-system color token meets" message, never
\* nothing.
C22_NoPassingTokenGivesTheMessage ==
    Recommended /\ NonEmptyPalette /\ NoTokenMeets =>
        Truthy(result) /\ result.text = "No design-system color token meets"

\* the same, for palettes holding at least one value that is a colour
C22_MessageWhenSomeValueIsAColor ==
    (/\ Recommended /\ NonEmptyPalette /\ NoTokenMeets
     /\ \E i \in DOMAIN payload.designSystemColors.entries :
            Truthy(parseHexColor(payload.designSystemColors.entries[i].hex))) =>
        Truthy(result) /\ result.text = "No design-system color token meets"

(***************************************************************************)
(* normalizeTarget and the payload it is given.  The payload is an object  *)
(* the caller keeps: what normalizeTarget writes to it stays written.      *)
(***************************************************************************)
\* payloads whose design context yields no traversable node
EmptyPayloads ==
    {[kind |-> "payload", nodeId |-> 1, warnings |-> <<>>, designContext |-> dc,
      metadata |-> Xml(<<>>)] : dc \in {Undefined, Null, Xml(<<>>)}}

FetchWarnings == {<<>>, <<"Screenshot unavailable from Figma MCP.">>}

(***************************************************************************)
(* SpecRenormalize: normalizeTarget is called twice on one payload.        *)
(***************************************************************************)
InitRenormalize ==
    /\ pc = "ready"
    /\ result = NotCalled
    /\ target = NoTarget
    /\ \E warnings \in FetchWarnings :
          \/ \E p \in EmptyPayloads : payload = [p EXCEPT !.warnings = warnings]
          \/ \E n \in 1..MaxRawNodes :
                \E ps \in TreeParentMaps(n) :
                   \E ks \in {ks \in [1..n -> LayerKinds] : ks[1] \in RootLayers} :
                      \E shape \in {"document", "xml"} :
                         payload = [MakePayload(Design(ps, ks), n, shape, {}, "node")
                                        EXCEPT !.warnings = warnings]
    /\ screenshot = NoScreenshot
    /\ subject = 0
    /\ current = 0
    /\ stood = {}
    /\ GateIdle
    /\ PolicyIdle
    /\ RulesIdle

NormalizeTargetAgainCall ==
    /\ pc = "normalized"
    /\ result' = normalizeTarget(payload)
    /\ payload' = PayloadAfterNormalizeTarget(payload)
    /\ pc' = "normalized-again"
    /\ UNCHANGED <<findings, failOn, suppressions, now, target, subject, context,
                   screenshot, current, stood>>

NextRenormalize == NormalizeTargetCall \/ NormalizeTargetAgainCall

SpecRenormalize == InitRenormalize /\ [][NextRenormalize]_vars

\* C30: normalizeTarget leaves the payload as it was, its warnings included.
C30_NormalizeTargetLeavesThePayload ==
    [][NormalizeTargetCall \/ NormalizeTargetAgainCall => payload' = payload]_vars

\* C30, second half: normalising the same payload twice yields two equal Targets,
\* also when the payload yields no traversable node.
C30_NormalizingTwiceGivesEqualTargets ==
    pc = "normalized-again" => result = target

\* the same for payloads that yield at least one node
C30_EqualTargetsWhenSomeNodeIsFound ==
    pc = "normalized-again" /\ Len(target.nodes) > 0 =>
        result = target /\ payload.warnings \in FetchWarnings

(***************************************************************************)
(* Exceptions in rule evaluation.  Neither a rule nor executeRules has a   *)
(* try statement: what a call inside the loop of a rule raises leaves the  *)
(* rule and, through flatMap, executeRules.                                *)
(***************************************************************************)
\* the text nodes at which resolveEffectiveBackground raises
RaisingTextNodes(t) ==
    {id \in NodeIds(t) :
        isTextualNode(t.nodes[id]) /\ resolveEffectiveBackground(t, id) = RangeError}

\* evaluateTextContrast(ctx) with what it raises: the loop ends at the first node
\* whose colour resolution raises, and its findings array is lost.
EvaluateTextContrastOutcome(t, c) ==
    IF RaisingTextNodes(t) # {} THEN Threw("Maximum call stack size exceeded")
    ELSE [kind |-> "returned", returned |-> evaluateTextContrast(t, c).returned]

\* rule.evaluate(ctx)
RuleOutcome(ruleId, t, c) ==
    CASE ruleId = TextRuleId -> EvaluateTextContrastOutcome(t, c)
      [] ruleId = NonTextRuleId ->
            [kind |-> "returned", returned |-> evaluateNonTextContrast(t)]
      [] ruleId = SizeRuleId -> [kind |-> "returned", returned |-> evaluateTargetSize(t)]

RECURSIVE ExecuteRulesFrom(_, _, _, _, _)
\* enabledRules.flatMap((rule) => rule.evaluate(ctx)) from the i-th rule on
ExecuteRulesFrom(enabledRules, i, t, c, acc) ==
    IF i > Len(enabledRules) THEN [kind |-> "returned", returned |-> acc]
    ELSE One({IF outcome.kind = "threw" THEN outcome
              ELSE ExecuteRulesFrom(enabledRules, i + 1, t, c, acc \o outcome.returned) :
                 outcome \in {RuleOutcome(enabledRules[i], t, c)}})

ExecuteEnabledRules(t, c, enabledRules) == ExecuteRulesFrom(enabledRules, 1, t, c, <<>>)

(***************************************************************************)
(* SpecRaise: executeRules on node collections whose parentId may name any *)
(* node, with the text rule enabled, alone or with the target-size rule.   *)
(***************************************************************************)
\* A text layer too pale for the white frame.
KPale == Kind("TEXT", TRUE, Rect(32, 32, 32, 32), <<Grey>>)

\* the rule context of a target without screenshot, with the rules enabled
RaiseContext(enabledRules) ==
    [kind |-> "ctx", sampleBackgroundColor |-> Undefined,
     sampleForegroundColor |-> Undefined, enabledRules |-> enabledRules]

\* MakeTarget with the fields of a node the rules read besides the resolver's
RaiseTarget(n, ps, ks) ==
    [MakeTarget(n, ps, ks, "design-context", Undefined) EXCEPT
        !.nodes = [id \in 1..n |->
                      MakeNode(id, ps[id], ks[id])
                          @@ [kind |-> "node", strokes |-> <<>>, isInteractive |-> FALSE,
                              fontSize |-> Undefined, fontWeight |-> Undefined]]]

InitRaise ==
    /\ pc = "ready"
    /\ result = NotCalled
    /\ \E n \in 1..MaxNodes :
          \E ps \in AnyParentMaps(n) :
             \E ks \in [1..n -> {KWhite, KLabel, KPale}] :
                target = RaiseTarget(n, ps, ks)
    /\ context \in {RaiseContext(<<TextRuleId>>), RaiseContext(<<TextRuleId, SizeRuleId>>)}
    /\ subject = 0
    /\ current = 0
    /\ stood = {}
    /\ GateIdle
    /\ PolicyIdle
    /\ IntakeIdle

ExecuteEnabledRulesCall ==
    /\ pc = "ready"
    /\ result' = ExecuteEnabledRules(target, context, context.enabledRules)
    /\ pc' = "rules-done"
    /\ UNCHANGED <<findings, failOn, suppressions, now, target, subject, context, payload,
                   screenshot, current, stood>>

NextRaise == ExecuteEnabledRulesCall

SpecRaise == InitRaise /\ [][NextRaise]_vars

\* the findings of the text nodes whose evaluation does not raise
FindingsOfTheOtherNodes ==
    UNION {Range(TextContrastOfNode(target, context, id).pushed) :
              id \in {i \in NodeIds(target) : isTextualNode(target.nodes[i])}
                         \ RaisingTextNodes(target)}

\* C26: no exception leaves rule evaluation: when the evaluation of one node
\* raises, executeRules still returns, and what it returns holds the findings of
\* the remaining nodes.
C26_NoExceptionLeavesRuleEvaluation ==
    pc = "rules-done" =>
        /\ result.kind = "returned"
        /\ FindingsOfTheOtherNodes \subseteq Range(result.returned)

\* when no node raises, executeRules returns the findings of every text node
C26_ReturnsWhenNothingRaises ==
    pc = "rules-done" /\ RaisingTextNodes(target) = {} =>
        /\ result.kind = "returned"
        /\ FindingsOfTheOtherNodes \subseteq Range(result.returned)

\* the resolution of one text node raises while another text node has a finding
C26_RaisedBesideAFinding ==
    /\ pc = "rules-done"
    /\ RaisingTextNodes(target) # {}
    /\ FindingsOfTheOtherNodes # {}

(***************************************************************************)
(* core/auditRunner: runAudit.  A run is held as the record of its locals: *)
(* the progress events emitted so far, targetResults, currentStage of the  *)
(* target in progress, and what the run has returned.                      *)
(***************************************************************************)
\* stableId(parts): a hash of the parts, held as the parts themselves
stableId(parts) == [kind |-> "sha1", parts |-> parts]

\* The fixed catalog of checks that cannot be automated.
MANUAL_CHECK_CATALOG ==
    <<[id |-> "manual-check-1", wcagCriterion |-> "criterion-1"],
      [id |-> "manual-check-2", wcagCriterion |-> "criterion-2"],
      [id |-> "manual-check-3", wcagCriterion |-> "criterion-3"],
      [id |-> "manual-check-4", wcagCriterion |-> "criterion-4"],
      [id |-> "manual-check-5", wcagCriterion |-> "criterion-5"]>>

\* buildManualChecklist(target), target given by its figmaUrl, nodeId, frameName
buildManualChecklist(figmaUrl, nodeId, frameName) ==
    [k \in DOMAIN MANUAL_CHECK_CATALOG |->
        [kind |-> "manual-check",
         id |-> stableId(<<MANUAL_CHECK_CATALOG[k].id, nodeId>>),
         wcagCriterion |-> MANUAL_CHECK_CATALOG[k].wcagCriterion,
         targetRef |-> [figmaUrl |-> figmaUrl, nodeId |-> nodeId,
                        frameName |-> frameName, layerPath |-> frameName]]]

\* The targets a run may be asked for, by position; the client sets the node id
\* it parsed from the URL on the payload.
Urls ==
    <<"https://www.figma.com/design/b?node-id=1-2",
      "https://www.figma.com/design/a?node-id=1-2",
      "https://www.figma.com/design/c?node-id=1-2">>

\* tryParseFigmaUrl: the node id of the URL, or Undefined when parseFigmaUrl throws
tryParseFigmaUrl(figmaUrl) ==
    IF \E k \in DOMAIN Urls : Urls[k] = figmaUrl THEN [kind |-> "parsed", nodeId |-> 1]
    ELSE Undefined

\* buildFetchFailureTargetResult(figmaUrl, errorMessage) with every field
FetchFailureTargetResult(figmaUrl, errorMessage) ==
    One({buildFetchFailureTargetResult(errorMessage)
            @@ [figmaUrl |-> figmaUrl,
                nodeId |-> nodeId,
                frameName |-> IF nodeId = "unknown" THEN "Figma Target"
                              ELSE "Figma Node " \o nodeId,
                screenshotPath |-> Undefined,
                manualChecks |->
                    buildManualChecklist(figmaUrl, nodeId,
                                         IF nodeId = "unknown" THEN "Figma Target"
                                         ELSE "Figma Node " \o nodeId)] :
         nodeId \in {IF Truthy(tryParseFigmaUrl(figmaUrl))
                     THEN ToString(tryParseFigmaUrl(figmaUrl).nodeId)
                     ELSE "unknown"}})

\* a finding whose id also depends on how often the audit has run
ReportedWithRunCounter(f, figmaUrl, nodeId, frameName) ==
    f @@ [id |-> stableId(<<f.ruleId, nodeId, ToString(f.nodeId), f.status,
                           ToString(current)>>),
          targetRef |-> [figmaUrl |-> figmaUrl, nodeId |-> ToString(f.nodeId),
                         frameName |-> frameName],
          suppressed |-> Undefined]

\* A finding as its rule pushes it: the id hashed from the rule, the target, the
\* node and the verdict, and the reference to the layer.
Reported(f, figmaUrl, nodeId, frameName) ==
    f @@ [id |-> stableId(<<f.ruleId, nodeId, ToString(f.nodeId), f.status>>),
          targetRef |-> [figmaUrl |-> figmaUrl, nodeId |-> ToString(f.nodeId),
                         frameName |-> frameName],
          suppressed |-> Undefined]

\* the callback of rawFindings.map in runAudit: the severity of the rule's
\* configuration, when it has one
SeverityAdjusted(f, rules) ==
    IF f.ruleId \notin DOMAIN rules THEN f
    ELSE [f EXCEPT !.severity = rules[f.ruleId].severity]

\* RULES.filter(...): the ids of the enabled rules
EnabledRules(rules) ==
    SelectSeq(<<TextRuleId, NonTextRuleId, SizeRuleId>>,
              LAMBDA id : IF id \in DOMAIN rules THEN rules[id].enabled ELSE TRUE)

\* persistScreenshot(payload, assetsDir): the path of the file written
persistScreenshot(p) ==
    IF ~Truthy(Get(p, "screenshot")) THEN Undefined
    ELSE IF Truthy(Get(p.screenshot, "bytes"))
         THEN Str("assets/" \o ToString(p.nodeId) \o "." \o p.screenshot.ext)
    ELSE Undefined

CountBySeverityCountingSuppressed(fs) ==
    [s \in Severities |->
        Cardinality({i \in DOMAIN fs : fs[i].status = "failed" /\ fs[i].severity = s})]

countBySeverity(fs) ==
    [s \in Severities |->
        Cardinality({i \in DOMAIN fs :
                        /\ ~Truthy(fs[i].suppressed)
                        /\ fs[i].status = "failed"
                        /\ fs[i].severity = s})]

\* the place of a target's URL among the URLs under localeCompare
UrlRank(figmaUrl) ==
    CASE figmaUrl = Urls[2] -> 1
      [] figmaUrl = Urls[1] -> 2
      [] figmaUrl = Urls[3] -> 3

\* sortTargets: a stable sort by figmaUrl|nodeId|frameName; the targets of a run
\* differ in their URLs
sortTargets(ts) ==
    LET Place(i) == 1 + Cardinality({j \in DOMAIN ts :
                        \/ UrlRank(ts[j].figmaUrl) < UrlRank(ts[i].figmaUrl)
                        \/ UrlRank(ts[j].figmaUrl) = UrlRank(ts[i].figmaUrl) /\ j < i})
    IN  [k \in DOMAIN ts |-> ts[CHOOSE i \in DOMAIN ts : Place(i) = k]]

\* the place of a catalog criterion among the criteria under localeCompare
CriterionRank(wcagCriterion) ==
    CHOOSE k \in DOMAIN MANUAL_CHECK_CATALOG :
        MANUAL_CHECK_CATALOG[k].wcagCriterion = wcagCriterion

\* sortManualChecks: a stable sort by targetRef.nodeId|wcagCriterion|id; every
\* target of a run has the same node id
sortManualChecks(checks) ==
    LET Place(i) == 1 + Cardinality({j \in DOMAIN checks :
                        \/ CriterionRank(checks[j].wcagCriterion)
                              < CriterionRank(checks[i].wcagCriterion)
                        \/ /\ CriterionRank(checks[j].wcagCriterion)
                                 = CriterionRank(checks[i].wcagCriterion)
                           /\ j < i})
    IN  [k \in DOMAIN checks |-> checks[CHOOSE i \in DOMAIN checks : Place(i) = k]]

\* the progress events
RunStart(totalTargets) ==
    [type |-> "run-start", totalTargets |-> totalTargets, targetIndex |-> 0,
     stage |-> "", success |-> TRUE]
RunEnd(totalTargets) ==
    [type |-> "run-end", totalTargets |-> totalTargets, targetIndex |-> 0,
     stage |-> "", success |-> TRUE]
TargetStart(totalTargets, targetIndex) ==
    [type |-> "target-start", totalTargets |-> totalTargets,
     targetIndex |-> targetIndex, stage |-> "", success |-> TRUE]
TargetEnd(totalTargets, targetIndex, success) ==
    [type |-> "target-end", totalTargets |-> totalTargets,
     targetIndex |-> targetIndex, stage |-> "", success |-> success]
StageStart(totalTargets, targetIndex, stage) ==
    [type |-> "stage-start", totalTargets |-> totalTargets,
     targetIndex |-> targetIndex, stage |-> stage, success |-> TRUE]
StageEnd(totalTargets, targetIndex, stage, success) ==
    [type |-> "stage-end", totalTargets |-> totalTargets,
     targetIndex |-> targetIndex, stage |-> stage, success |-> success]

emitProgress(run, event) == [run EXCEPT !.events = Append(@, event)]

startStage(run, totalTargets, targetIndex, stage) ==
    [emitProgress(run, StageStart(totalTargets, targetIndex, stage))
        EXCEPT !.currentStage = Str(stage)]

endStage(run, totalTargets, targetIndex, success) ==
    IF ~Truthy(run.currentStage) THEN run
    ELSE [emitProgress(run, StageEnd(totalTargets, targetIndex, run.currentStage.value,
                                     success))
            EXCEPT !.currentStage = Undefined]

CatchClauseWithoutResult(run, totalTargets, targetIndex, figmaUrl, errorMessage) ==
    emitProgress(endStage(run, totalTargets, targetIndex, FALSE),
                 TargetEnd(totalTargets, targetIndex, FALSE))

\* the catch clause of the loop over the targets
CatchClause(run, totalTargets, targetIndex, figmaUrl, errorMessage) ==
    emitProgress(
        [endStage(run, totalTargets, targetIndex, FALSE) EXCEPT
            !.targetResults = Append(@, FetchFailureTargetResult(figmaUrl, errorMessage))],
        TargetEnd(totalTargets, targetIndex, FALSE))

\* the report built after the loop
BuildReport(targetResults, totalTargets, runId, startedAt, finishedAt) ==
    One({[kind |-> "report",
          runId |-> runId,
          startedAt |-> startedAt,
          finishedAt |-> finishedAt,
          summary |->
            [totalTargets |-> totalTargets,
             totalFindings |-> Len(fs),
             suppressedFindings |->
                Cardinality({i \in DOMAIN fs : Truthy(fs[i].suppressed)}),
             manualReviewFindings |->
                Cardinality({i \in DOMAIN fs : fs[i].status = "needs-manual-review"}),
             bySeverity |-> countBySeverity(fs),
             failedTargets |->
                Cardinality({k \in DOMAIN targetResults :
                    \E i \in DOMAIN targetResults[k].findings :
                        /\ targetResults[k].findings[i].status = "failed"
                        /\ ~Truthy(targetResults[k].findings[i].suppressed)}),
             warnings |->
                Flatten([k \in DOMAIN targetResults |->
                    [w \in DOMAIN targetResults[k].warnings |->
                        <<targetResults[k].frameName, targetResults[k].warnings[w]>>]])],
          targets |-> sortTargets(targetResults),
          findings |-> sortFindings(fs),
          manualChecks |->
            sortManualChecks(Flatten([k \in DOMAIN targetResults |->
                                        targetResults[k].manualChecks]))] :
         fs \in {Flatten([k \in DOMAIN targetResults |-> targetResults[k].findings])}})

(***************************************************************************)
(* SpecRun: the audit command runs runAudit on up to MaxTargets targets,   *)
(* and then a second time with the same options, client, now and run id.   *)
(* context holds the options and what fails outside the targets, payload   *)
(* the payload (or the error) the client answers with for each target,     *)
(* result the run, subject the targetIndex, current the number of the run, *)
(* target the normalized target and findings the findings of the target in *)
(* progress.                                                               *)
(***************************************************************************)
MaxTargets == 2

Panel == Layer("frame", "Panel", "shown", TRUE, <<"300", "300">>, FALSE)
OkButton == Layer("button", "Ok", "faded", TRUE, <<"24", "23.75">>, FALSE)
TabControl == Layer("instance", "Tab", "shown", TRUE, <<>>, TRUE)
CardControl == Layer("rectangle", "Card", "shown", TRUE, <<"24", "24">>, TRUE)

CheckoutDesign == Design(<<0, 1, 1, 1>>, <<Panel, OkButton, TabControl, OkButton>>)

\* what the client answers: an error, a frame with two undersized buttons and a
\* control without bounds, a frame with a large enough control, a context with
\* no layer, and the first payload with a screenshot that cannot be inflated
Answers ==
    {Threw("Synthetic fetch failure"),
     MakePayload(CheckoutDesign, 4, "document", {}, "node")
        @@ [frameName |-> "Checkout Form"],
     MakePayload(Design(<<0, 1>>, <<Panel, CardControl>>), 2, "document", {}, "node")
        @@ [frameName |-> "Accessible Form"],
     [kind |-> "payload", nodeId |-> 1, warnings |-> <<>>, designContext |-> Undefined,
      frameName |-> "Empty Frame"],
     MakePayload(CheckoutDesign, 4, "document", {}, "node")
        @@ [frameName |-> "Checkout Form", screenshot |-> Screenshot(CorruptData, "png")]}

NoRules == <<>>
SizeRule(severity) == SizeRuleId :> [enabled |-> TRUE, severity |-> severity]

ButtonSuppression ==
    [kind |-> "suppression", ruleId |-> SizeRuleId, targetId |-> "2",
     reason |-> <<"w">>, expiresOn |-> "2027-01-01"]

\* configurations and gates: <<config.rules, config.suppressions,
\* config.report.includeScreenshots, failOn>>
RunConfigs ==
    {<<NoRules, <<>>, FALSE, {"blocker", "critical"}>>,
     <<SizeRule("minor"), <<>>, TRUE, {"blocker", "critical"}>>,
     <<SizeRule("major"), <<>>, FALSE, {"major"}>>,
     <<NoRules, <<ButtonSuppression>>, TRUE, {"blocker", "critical"}>>}

\* what fails outside the targets: nothing, loadConfig, mkdir(outDir), the
\* writing of the report
Faults == {"none", "config", "mkdir", "write"}

Options(targets, rules, includeScreenshots, reuse, fault) ==
    [kind |-> "options", targets |-> targets, rules |-> rules,
     includeScreenshots |-> includeScreenshots, reuse |-> reuse, fault |-> fault]

NewRun(first) ==
    [kind |-> "run", events |-> <<>>, targetResults |-> <<>>,
     currentStage |-> Undefined, sampleBackgroundColor |-> Undefined,
     sampleForegroundColor |-> Undefined, screenshotPath |-> Undefined,
     suppressionWarnings |-> <<>>, manualChecks |-> <<>>, returned |-> Undefined,
     exitCode |-> Undefined, first |-> first]

InitRun ==
    /\ pc = "cli"
    /\ \E n \in 1..MaxTargets :
          \E answers \in [1..n -> Answers] :
             \E cfg \in RunConfigs :
                \E reuse \in BOOLEAN, fault \in Faults :
                   /\ context = Options([k \in 1..n |-> Urls[k]], cfg[1], cfg[3], reuse,
                                        fault)
                   /\ payload = [k \in 1..n |->
                                    IF answers[k].kind = "threw" THEN answers[k]
                                    ELSE answers[k] @@ [figmaUrl |-> Urls[k]]]
                   /\ suppressions = cfg[2]
                   /\ failOn = cfg[4]
    /\ now = NewDate("2026-02-09")
    /\ result = NewRun(Undefined)
    /\ findings = <<>>
    /\ target = NoTarget
    /\ subject = 0
    /\ current = 1
    /\ stood = {}
    /\ screenshot = NoScreenshot

TotalTargets == Len(context.targets)

\* runAuditCommand up to the call of runAudit: loadConfig throws on a
\* configuration it rejects.
LoadConfigCall ==
    /\ pc = "cli"
    /\ IF context.fault = "config"
       THEN /\ result' = [result EXCEPT !.returned = Threw("Invalid configuration")]
            /\ pc' = "main-catch"
       ELSE /\ pc' = "run-start"
            /\ UNCHANGED result
    /\ UNCHANGED <<findings, failOn, suppressions, now, target, subject, current, stood,
                   context, payload, screenshot>>

\* runAudit up to the loop: run-start, then mkdir(outDir).
RunAuditStart ==
    /\ pc = "run-start"
    /\ \E run \in {emitProgress(result, RunStart(TotalTargets))} :
          IF context.fault = "mkdir"
          THEN /\ result' = [run EXCEPT !.returned = Threw("EACCES: permission denied")]
               /\ pc' = "main-catch"
          ELSE /\ result' = run
               /\ pc' = "target-start"
    /\ subject' = 0
    /\ UNCHANGED <<findings, failOn, suppressions, now, target, current, stood, context,
                   payload, screenshot>>

\* The head of the loop: the next target's target-start, or the end of the loop.
TargetStartStep ==
    /\ pc = "target-start"
    /\ IF subject < TotalTargets
       THEN /\ subject' = subject + 1
            /\ result' = [emitProgress(result, TargetStart(TotalTargets, subject + 1))
                            EXCEPT !.currentStage = Undefined,
                                   !.screenshotPath = Undefined]
            /\ pc' = "fetch"
       ELSE /\ pc' = "report"
            /\ UNCHANGED <<subject, result>>
    /\ UNCHANGED <<findings, failOn, suppressions, now, target, current, stood, context,
                   payload, screenshot>>

\* The stage "fetch".
FetchStage ==
    /\ pc = "fetch"
    /\ \E run \in {startStage(result, TotalTargets, subject, "fetch")} :
          IF payload[subject].kind = "threw"
          THEN /\ result' = CatchClause(run, TotalTargets, subject,
                                        context.targets[subject], payload[subject].message)
               /\ pc' = "target-start"
          ELSE /\ result' = endStage(run, TotalTargets, subject, TRUE)
               /\ pc' = "normalize"
    /\ UNCHANGED <<findings, failOn, suppressions, now, target, subject, current, stood,
                   context, payload, screenshot>>

\* The stage "normalize": normalizeTarget writes to the payload it is given,
\* which is the client's own object when the client hands it out again.
NormalizeStage ==
    /\ pc = "normalize"
    /\ target' = normalizeTarget(payload[subject])
                    @@ [figmaUrl |-> payload[subject].figmaUrl,
                        frameName |-> payload[subject].frameName]
    /\ payload' = IF context.reuse
                  THEN [payload EXCEPT ![subject] = PayloadAfterNormalizeTarget(@)]
                  ELSE payload
    /\ result' = endStage(startStage(result, TotalTargets, subject, "normalize"),
                          TotalTargets, subject, TRUE)
    /\ pc' = "samplers"
    /\ UNCHANGED <<findings, failOn, suppressions, now, subject, current, stood, context,
                   screenshot>>

\* The two samplers are made outside any stage.
SamplersStep ==
    /\ pc = "samplers"
    /\ \E sampleBackgroundColor \in
            {createScreenshotBackgroundSampler(target, Get(payload[subject], "screenshot"))} :
          IF sampleBackgroundColor.kind = "threw"
          THEN /\ result' = CatchClause(result, TotalTargets, subject,
                                        context.targets[subject],
                                        sampleBackgroundColor.message)
               /\ pc' = "target-start"
          ELSE /\ result' = [result EXCEPT
                                !.sampleBackgroundColor = sampleBackgroundColor,
                                !.sampleForegroundColor =
                                    createScreenshotForegroundSampler(
                                        target, Get(payload[subject], "screenshot"))]
               /\ pc' = IF context.includeScreenshots THEN "screenshot" ELSE "rules"
    /\ UNCHANGED <<findings, failOn, suppressions, now, target, subject, current, stood,
                   context, payload, screenshot>>

\* The stage "screenshot".
ScreenshotStage ==
    /\ pc = "screenshot"
    /\ result' = [endStage(startStage(result, TotalTargets, subject, "screenshot"),
                           TotalTargets, subject, TRUE)
                    EXCEPT !.screenshotPath = persistScreenshot(payload[subject])]
    /\ pc' = "rules"
    /\ UNCHANGED <<findings, failOn, suppressions, now, target, subject, current, stood,
                   context, payload, screenshot>>

\* The stage "rules", and severityAdjusted.
RulesStage ==
    /\ pc = "rules"
    /\ \E run \in {startStage(result, TotalTargets, subject, "rules")} :
       \E outcome \in {ExecuteEnabledRules(
                          target,
                          [kind |-> "ctx",
                           sampleBackgroundColor |-> result.sampleBackgroundColor,
                           sampleForegroundColor |-> result.sampleForegroundColor],
                          EnabledRules(context.rules))} :
          IF outcome.kind = "threw"
          THEN /\ result' = CatchClause(run, TotalTargets, subject,
                                        context.targets[subject], outcome.message)
               /\ pc' = "target-start"
               /\ UNCHANGED findings
          ELSE /\ result' = endStage(run, TotalTargets, subject, TRUE)
               /\ findings' =
                    [i \in DOMAIN outcome.returned |->
                        SeverityAdjusted(
                            Reported(outcome.returned[i], target.figmaUrl,
                                     ToString(target.nodeId), target.frameName),
                            context.rules)]
               /\ pc' = "suppressions"
    /\ UNCHANGED <<failOn, suppressions, now, target, subject, current, stood, context,
                   payload, screenshot>>

\* The stage "suppressions".
SuppressionsStage ==
    /\ pc = "suppressions"
    /\ \E suppressionResult \in {applySuppressions(findings, suppressions, now)} :
          /\ findings' = suppressionResult.findings
          /\ result' = [endStage(startStage(result, TotalTargets, subject, "suppressions"),
                                 TotalTargets, subject, TRUE)
                          EXCEPT !.suppressionWarnings = suppressionResult.warnings]
    /\ pc' = "manual-checklist"
    /\ UNCHANGED <<failOn, suppressions, now, target, subject, current, stood, context,
                   payload, screenshot>>

\* The stage "manual-checklist".
ManualChecklistStage ==
    /\ pc = "manual-checklist"
    /\ result' = [endStage(startStage(result, TotalTargets, subject, "manual-checklist"),
                           TotalTargets, subject, TRUE)
                    EXCEPT !.manualChecks =
                        buildManualChecklist(target.figmaUrl, ToString(target.nodeId),
                                             target.frameName)]
    /\ pc' = "target-finalize"
    /\ UNCHANGED <<findings, failOn, suppressions, now, target, subject, current, stood,
                   context, payload, screenshot>>

\* The stage "target-finalize" and the target-end that follows it.
TargetFinalizeStage ==
    /\ pc = "target-finalize"
    /\ \E run \in {startStage(result, TotalTargets, subject, "target-finalize")} :
          result' =
            emitProgress(
                endStage(
                    [run EXCEPT !.targetResults =
                        Append(@, TargetResult(sortFindings(findings),
                                               target.warnings \o run.suppressionWarnings)
                                    @@ [figmaUrl |-> context.targets[subject],
                                        nodeId |-> ToString(target.nodeId),
                                        frameName |-> target.frameName,
                                        screenshotPath |-> run.screenshotPath,
                                        manualChecks |-> run.manualChecks])],
                    TotalTargets, subject, TRUE),
                TargetEnd(TotalTargets, subject, TRUE))
    /\ findings' = <<>>
    /\ pc' = "target-start"
    /\ UNCHANGED <<failOn, suppressions, now, target, subject, current, stood, context,
                   payload, screenshot>>

\* After the loop: the report, the stage "report" in which it is written, run-end
\* and the return.  When the writing fails the promise of runAudit is rejected.
ReportStage ==
    /\ pc = "report"
    /\ \E report \in {BuildReport(result.targetResults, TotalTargets, "run-fixed-1",
                                  ToISOString(now), ToISOString(now))} :
       \E run \in {emitProgress(result, StageStart(TotalTargets, TotalTargets, "report"))} :
          IF context.fault = "write"
          THEN /\ result' = [run EXCEPT !.returned = Threw("ENOSPC: no space left")]
               /\ pc' = "main-catch"
          ELSE /\ result' =
                    [emitProgress(
                        emitProgress(run, StageEnd(TotalTargets, TotalTargets, "report",
                                                   TRUE)),
                        RunEnd(TotalTargets))
                     EXCEPT !.returned =
                        [kind |-> "returned", report |-> report,
                         shouldFail |-> shouldFailBuild(report.findings, failOn)]]
               /\ pc' = "returned"
    /\ UNCHANGED <<findings, failOn, suppressions, now, target, subject, current, stood,
                   context, payload, screenshot>>

\* runAuditCommand after runAudit has returned.
SetExitCode ==
    /\ pc = "returned"
    /\ result' = [result EXCEPT !.exitCode = Num(IF result.returned.shouldFail THEN 2
                                                 ELSE 0)]
    /\ pc' = "exited"
    /\ UNCHANGED <<findings, failOn, suppressions, now, target, subject, current, stood,
                   context, payload, screenshot>>

\* The catch clause of main.
MainCatch ==
    /\ pc = "main-catch"
    /\ result' = [result EXCEPT !.exitCode = Num(1)]
    /\ pc' = "exited"
    /\ UNCHANGED <<findings, failOn, suppressions, now, target, subject, current, stood,
                   context, payload, screenshot>>

\* The command is run a second time, with the same options and the same client.
RunAgain ==
    /\ pc = "exited"
    /\ current = 1
    /\ current' = 2
    /\ result' = NewRun(result)
    /\ target' = NoTarget
    /\ subject' = 0
    /\ pc' = "cli"
    /\ UNCHANGED <<findings, failOn, suppressions, now, stood, context, payload, screenshot>>

NextRun ==
    \/ LoadConfigCall
    \/ RunAuditStart
    \/ TargetStartStep
    \/ FetchStage
    \/ NormalizeStage
    \/ SamplersStep
    \/ ScreenshotStage
    \/ RulesStage
    \/ SuppressionsStage
    \/ ManualChecklistStage
    \/ TargetFinalizeStage
    \/ ReportStage
    \/ SetExitCode
    \/ MainCatch
    \/ RunAgain

SpecRun == InitRun /\ [][NextRun]_vars

(***************************************************************************)
(* Claims about runAudit and the audit command.                            *)
(***************************************************************************)
\* the run in progress has returned from runAudit
RunReturned == Truthy(result.returned) /\ result.returned.kind = "returned"

\* the targets for which the client throws, and those whose screenshot makes the
\* sampler throw
FetchThrows(k) == payload[k].kind = "threw"
SamplerThrows(k) ==
    ~FetchThrows(k) /\ Get(payload[k], "screenshot") = Screenshot(CorruptData, "png")
ThrowingTargets == {k \in DOMAIN payload : FetchThrows(k) \/ SamplerThrows(k)}

\* the results the report holds for the k-th requested target
ResultsFor(report, k) ==
    {i \in DOMAIN report.targets : report.targets[i].figmaUrl = context.targets[k]}

StartsWith(s, prefix) == Len(s) >= Len(prefix) /\ SubSeq(s, 1, Len(prefix)) = prefix

\* C24: when fetching a target, or a later step for it, throws, runAudit does not
\* throw: the report holds exactly one result for that target, with no finding,
\* one manual check per catalog entry stamped with that target and the fallback
\* warning; and it holds one result per requested target.
C24_ThrowingTargetGetsTheFallbackResult ==
    /\ context.kind = "options" /\ context.fault = "none" => pc # "main-catch"
    /\ RunReturned =>
        /\ Len(result.returned.report.targets) = Len(context.targets)
        /\ \A k \in DOMAIN context.targets : Cardinality(ResultsFor(result.returned.report, k)) = 1
        /\ \A k \in ThrowingTargets :
            \A i \in ResultsFor(result.returned.report, k) :
                LET r == result.returned.report.targets[i]
                IN  /\ r.findings = <<>>
                    /\ Len(r.manualChecks) = Len(MANUAL_CHECK_CATALOG)
                    /\ \A c \in DOMAIN r.manualChecks :
                        /\ r.manualChecks[c].wcagCriterion
                              = MANUAL_CHECK_CATALOG[c].wcagCriterion
                        /\ r.manualChecks[c].targetRef.figmaUrl = context.targets[k]
                    /\ Len(r.warnings) = 1
                    /\ StartsWith(r.warnings[1], "Fetch/audit fallback engaged")

\* A run of two targets has returned: the first threw, the second has findings.
C24_Witness ==
    /\ RunReturned
    /\ Len(context.targets) = 2
    /\ 1 \in ThrowingTargets
    /\ \E i \in ResultsFor(result.returned.report, 2) :
          result.returned.report.targets[i].findings # <<>>

\* the findings of the report that count: failed and not suppressed
Counting(fs) == {i \in DOMAIN fs : fs[i].status = "failed" /\ ~Truthy(fs[i].suppressed)}

RECURSIVE SumOver(_, _)
SumOver(f, S) ==
    IF S = {} THEN 0
    ELSE LET x == CHOOSE x \in S : TRUE IN f[x] + SumOver(f, S \ {x})

\* the number of entries of a sequence equal to x
Occurrences(seq, x) == Cardinality({i \in DOMAIN seq : seq[i] = x})

\* C28: the summary agrees with the findings: totalFindings is their number, the
\* bySeverity counts sum to the number of failed, unsuppressed findings,
\* failedTargets is the number of target results holding one, the report's
\* findings are the per-target findings in severity order, and shouldFail implies
\* a failed target and a positive count for a severity of failOn.
C28_SummaryAgreesWithFindings ==
    RunReturned =>
        LET report == result.returned.report
            perTarget == Flatten([k \in DOMAIN result.targetResults |->
                                    result.targetResults[k].findings])
        IN  /\ report.summary.totalFindings = Len(report.findings)
            /\ SumOver(report.summary.bySeverity, Severities)
                  = Cardinality(Counting(report.findings))
            /\ report.summary.failedTargets
                  = Cardinality({i \in DOMAIN report.targets :
                                    Counting(report.targets[i].findings) # {}})
            /\ Len(report.findings) = Len(perTarget)
            /\ \A i \in DOMAIN perTarget :
                  Occurrences(report.findings, perTarget[i])
                      = Occurrences(perTarget, perTarget[i])
            /\ \A i \in DOMAIN report.findings : \A j \in DOMAIN report.findings :
                  i < j => severitySortValue(report.findings[i].severity)
                              <= severitySortValue(report.findings[j].severity)
            /\ result.returned.shouldFail =>
                  /\ report.summary.failedTargets >= 1
                  /\ \E s \in failOn : report.summary.bySeverity[s] > 0

\* A report of two targets with findings of two severities, one of them
\* suppressed, one for manual review, and a gate that fails.
C28_Witness ==
    /\ RunReturned
    /\ result.returned.shouldFail
    /\ \E i \in DOMAIN result.returned.report.findings :
          Truthy(result.returned.report.findings[i].suppressed)
    /\ \E i \in DOMAIN result.returned.report.findings :
          result.returned.report.findings[i].status = "needs-manual-review"
    /\ Cardinality({result.returned.report.findings[i].severity :
                       i \in DOMAIN result.returned.report.findings}) >= 2
    /\ Cardinality({result.returned.report.findings[i].targetRef.figmaUrl :
                       i \in DOMAIN result.returned.report.findings}) = 2

\* an error of the kinds the exit code 1 stands for: the configuration is
\* rejected, runAudit fails at run time, or the fetch of a target fails
ErrorOccurred ==
    \/ context.fault # "none"
    \/ \E k \in DOMAIN payload : FetchThrows(k)

\* C25: the exit code of the audit command is 1 when a runtime, config or fetch
\* error occurred, and otherwise 2 when some finding matches the failOn policy and
\* 0 when none does.
C25_ExitCodes ==
    pc = "exited" =>
        result.exitCode = Num(IF ErrorOccurred THEN 1
                              ELSE IF result.returned.shouldFail THEN 2
                              ELSE 0)

\* the same without the fetch errors: 1 exactly when loadConfig or runAudit threw
C25_ExitCodesApartFromFetchErrors ==
    pc = "exited" =>
        result.exitCode = Num(IF context.fault # "none" THEN 1
                              ELSE IF shouldFailBuild(result.returned.report.findings,
                                                      failOn) THEN 2
                              ELSE 0)

\* the command has ended with exit code 0 after the fetch of a target failed
C25_FetchErrorExitsWithZero ==
    /\ pc = "exited"
    /\ \E k \in DOMAIN payload : FetchThrows(k)
    /\ result.exitCode = Num(0)

\* both runs have returned
BothReturned ==
    /\ current = 2
    /\ RunReturned
    /\ Truthy(result.first.returned)
    /\ result.first.returned.kind = "returned"

\* the second run is given the payloads the first run was given: the client makes
\* a new payload for every fetch, or normalizeTarget has left the payloads alone
SamePayloads ==
    \/ ~context.reuse
    \/ \A k \in DOMAIN payload :
          ~FetchThrows(k) => PayloadAfterNormalizeTarget(payload[k]) = payload[k]

WarningsDifferOnReusedPayload ==
    /\ BothReturned
    /\ context.reuse
    /\ result.returned.report.summary.warnings
          # result.first.returned.report.summary.warnings

RECURSIVE WellNestedFrom(_, _, _, _, _)
\* The events from the i-th on are what may follow in the given mode, for a run
\* of n targets of which k have been started: "start" before run-start, "between"
\* outside the targets, "target" inside a target with no stage open, "failed"
\* after a stage has ended with success = false, "report" in the report stage,
\* "written" after it, "end" after run-end; any other mode is the open stage.
WellNestedFrom(events, i, mode, k, n) ==
    IF i > Len(events) THEN mode = "end"
    ELSE LET e == events[i]
         IN  CASE mode = "start" ->
                    e.type = "run-start" /\ WellNestedFrom(events, i + 1, "between", 0, n)
               [] mode = "between" ->
                    IF k < n
                    THEN /\ e.type = "target-start" /\ e.targetIndex = k + 1
                         /\ WellNestedFrom(events, i + 1, "target", k + 1, n)
                    ELSE /\ e.type = "stage-start" /\ e.stage = "report"
                         /\ WellNestedFrom(events, i + 1, "report", k, n)
               [] mode = "target" ->
                    \/ /\ e.type = "stage-start" /\ e.targetIndex = k
                       /\ e.stage \notin {"start", "between", "target", "failed",
                                          "report", "written", "end"}
                       /\ WellNestedFrom(events, i + 1, e.stage, k, n)
                    \/ /\ e.type = "target-end" /\ e.targetIndex = k
                       /\ WellNestedFrom(events, i + 1, "between", k, n)
               [] mode = "failed" ->
                    /\ e.type = "target-end" /\ e.targetIndex = k /\ ~e.success
                    /\ WellNestedFrom(events, i + 1, "between", k, n)
               [] mode = "report" ->
                    /\ e.type = "stage-end" /\ e.stage = "report"
                    /\ WellNestedFrom(events, i + 1, "written", k, n)
               [] mode = "written" ->
                    e.type = "run-end" /\ WellNestedFrom(events, i + 1, "end", k, n)
               [] mode = "end" -> FALSE
               [] OTHER ->
                    /\ e.type = "stage-end" /\ e.stage = mode /\ e.targetIndex = k
                    /\ WellNestedFrom(events, i + 1,
                                      IF e.success THEN "target" ELSE "failed", k, n)

WellNested(events, n) == WellNestedFrom(events, 1, "start", 0, n)

\* the success flag of the target-end of the k-th target
TargetEndSuccess(events, k) ==
    {events[i].success : i \in {j \in DOMAIN events :
                                   events[j].type = "target-end"
                                       /\ events[j].targetIndex = k}}

\* runAudit has ended, by returning or by throwing
RunEnded ==
    /\ pc \in {"returned", "main-catch", "exited"}
    /\ context.fault # "config"

\* the flags of the target-ends are those of the results, and the stage in which
\* the fetch failed is ended with success = false
FlagsAgree ==
    /\ \A k \in DOMAIN result.targetResults :
          TargetEndSuccess(result.events, k)
              = {result.targetResults[k].kind # "fetch-failure"}
    /\ \A k \in DOMAIN result.targetResults :
          FetchThrows(k) =>
              \E i \in DOMAIN result.events :
                 result.events[i] = StageEnd(TotalTargets, k, "fetch", FALSE)

\* C27: the progress events of every run are well nested: run-start first and
\* run-end last; for each target in input order one target-start, stages that
\* open and close in turn under one name each, the stage of an error closed with
\* success = false, and one target-end whose flag is false exactly when the
\* target fell back to the failure result.
C27_ProgressEventsAreWellNested ==
    RunEnded => WellNested(result.events, TotalTargets) /\ FlagsAgree

\* the same for the runs from which runAudit returns
C27_WellNestedWhenRunAuditReturns ==
    RunReturned => WellNested(result.events, TotalTargets) /\ FlagsAgree

\* runAudit has thrown while the stage "report" is open
C27_ThrownInTheReportStage ==
    /\ pc = "main-catch"
    /\ result.events # <<>>
    /\ result.events[Len(result.events)] = StageStart(TotalTargets, TotalTargets, "report")

(***************************************************************************)
(* figma/mcpClient.ts: RemoteFigmaMcpClient.  One client object; its calls *)
(* are async functions, so a second call may start while the first waits   *)
(* for a response.  `context` is the client (initialized, nextId),         *)
(* `current` the calls made so far with their positions, `result` the      *)
(* requests, responses and call boundaries in the order they happened, and *)
(* `stood` whether a call has started while another one was still running. *)
(***************************************************************************)
MaxCalls == 3
MaxOpenCalls == 2
MaxToolCalls == 1

HandshakeMethods == {"initialize", "notifications/initialized"}

\* private initialized = false; private nextId = 1;
NewClient == [initialized |-> FALSE, nextId |-> 1]

McpEvent(type, method, by, client) ==
    [type |-> type, method |-> method, by |-> by, initialized |-> client.initialized]

\* rpcRequest up to `await fetch(...)`: the id is taken unless the request is a
\* notification, and the request is on the wire
RequestSent(client, notification) ==
    IF notification THEN client ELSE [client EXCEPT !.nextId = @ + 1]

Running(call) == call.at \notin {"returned", "threw"}

\* what a call whose handshake failed ends as: fetchTarget lets the error through,
\* healthCheck catches it and returns the failed check
AfterHandshakeFailure(op) == IF op = "fetchTarget" THEN "threw" ELSE "returned"

InitMcp ==
    /\ pc = "client"
    /\ context = NewClient
    /\ current = <<>>
    /\ result = <<>>
    /\ stood = FALSE
    /\ subject = 0
    /\ target = NoTarget
    /\ GateIdle
    /\ PolicyIdle
    /\ IntakeIdle

\* fetchTarget(figmaUrl) or healthCheck(figmaUrl?) is called: the call runs to its
\* first await, which is the initialize request, or passes initialize at once
\* when the client is initialized.
McpCallStart ==
    /\ pc = "client"
    /\ Len(current) < MaxCalls
    /\ Cardinality({k \in DOMAIN current : Running(current[k])}) < MaxOpenCalls
    /\ \E op \in {"fetchTarget", "healthCheck"}, hasUrl \in BOOLEAN :
          /\ op = "fetchTarget" => hasUrl
          /\ \E c \in {Len(current) + 1} :
                /\ current' = Append(current,
                                     [op |-> op, hasUrl |-> hasUrl, tools |-> 0,
                                      toolFailed |-> FALSE,
                                      at |-> IF context.initialized THEN "tools"
                                             ELSE "await-initialize"])
                /\ result' = IF context.initialized
                             THEN Append(result, McpEvent("call", "", c, context))
                             ELSE result \o <<McpEvent("call", "", c, context),
                                              McpEvent("send", "initialize", c, context)>>
                /\ context' = IF context.initialized THEN context
                              ELSE RequestSent(context, FALSE)
    /\ stood' = (stood \/ \E k \in DOMAIN current : Running(current[k]))
    /\ UNCHANGED <<pc, findings, failOn, suppressions, now, target, subject, payload,
                   screenshot>>

\* The initialize request of a call is answered: on success the call sends the
\* notification, on failure rpcRequest throws and initialize is left.
McpInitializeResponse ==
    /\ pc = "client"
    /\ \E c \in DOMAIN current, ok \in BOOLEAN :
          /\ current[c].at = "await-initialize"
          /\ IF ok
             THEN /\ current' = [current EXCEPT ![c].at = "await-initialized"]
                  /\ result' = result \o
                        <<McpEvent("ok", "initialize", c, context),
                          McpEvent("send", "notifications/initialized", c, context)>>
                  /\ context' = RequestSent(context, TRUE)
             ELSE /\ current' = [current EXCEPT
                                    ![c].at = AfterHandshakeFailure(current[c].op)]
                  /\ result' = Append(result, McpEvent("fail", "initialize", c, context))
                  /\ context' = context
    /\ UNCHANGED <<findings, failOn, suppressions, now, target, subject, stood, payload,
                   screenshot, pc>>

\* The notification of a call is answered: on success this.initialized = true.
McpInitializedResponse ==
    /\ pc = "client"
    /\ \E c \in DOMAIN current, ok \in BOOLEAN :
          /\ current[c].at = "await-initialized"
          /\ IF ok
             THEN /\ context' = [context EXCEPT !.initialized = TRUE]
                  /\ current' = [current EXCEPT ![c].at = "tools"]
                  /\ result' = Append(result,
                                      McpEvent("ok", "notifications/initialized", c,
                                               [context EXCEPT !.initialized = TRUE]))
             ELSE /\ context' = context
                  /\ current' = [current EXCEPT
                                    ![c].at = AfterHandshakeFailure(current[c].op)]
                  /\ result' = Append(result,
                                      McpEvent("fail", "notifications/initialized", c,
                                               context))
    /\ UNCHANGED <<findings, failOn, suppressions, now, target, subject, stood, payload,
                   screenshot, pc>>

\* callToolWithFallback sends a tools/call request.
McpToolCallSend ==
    /\ pc = "client"
    /\ \E c \in DOMAIN current :
          /\ current[c].at = "tools"
          /\ current[c].hasUrl
          /\ current[c].tools < MaxToolCalls
          /\ current' = [current EXCEPT ![c].at = "await-tool", ![c].tools = @ + 1]
          /\ result' = Append(result, McpEvent("send", "tools/call", c, context))
          /\ context' = RequestSent(context, FALSE)
    /\ UNCHANGED <<findings, failOn, suppressions, now, target, subject, stood, payload,
                   screenshot, pc>>

\* The tools/call request is answered.
McpToolCallResponse ==
    /\ pc = "client"
    /\ \E c \in DOMAIN current, ok \in BOOLEAN :
          /\ current[c].at = "await-tool"
          /\ current' = [current EXCEPT ![c].at = "tools",
                                        ![c].toolFailed = @ \/ ~ok]
          /\ result' = Append(result,
                              McpEvent(IF ok THEN "ok" ELSE "fail", "tools/call", c,
                                       context))
    /\ UNCHANGED <<findings, failOn, suppressions, now, target, subject, stood, context,
                   payload, screenshot, pc>>

\* The call ends after its tool calls: healthCheck returns its checks (without a
\* url it makes no tool call), fetchTarget returns the payload or lets the error
\* of the design context through.
McpCallEnd ==
    /\ pc = "client"
    /\ \E c \in DOMAIN current :
          /\ current[c].at = "tools"
          /\ current[c].hasUrl => current[c].tools >= 1
          /\ \E threw \in BOOLEAN :
                /\ threw => current[c].op = "fetchTarget" /\ current[c].toolFailed
                /\ current' = [current EXCEPT
                                  ![c].at = IF threw THEN "threw" ELSE "returned"]
                /\ result' = Append(result, McpEvent("end", "", c, context))
    /\ UNCHANGED <<findings, failOn, suppressions, now, target, subject, stood, context,
                   payload, screenshot, pc>>

NextMcp ==
    \/ McpCallStart
    \/ McpInitializeResponse
    \/ McpInitializedResponse
    \/ McpToolCallSend
    \/ McpToolCallResponse
    \/ McpCallEnd

SpecMcp == InitMcp /\ [][NextMcp]_vars

\* the k-th event completes a handshake: the notification of a call has
\* succeeded after the initialize request of the same call
HandshakeDone(k) ==
    /\ result[k].type = "ok"
    /\ result[k].method = "notifications/initialized"
    /\ \E j \in 1..(k - 1) :
          /\ result[j].type = "ok"
          /\ result[j].method = "initialize"
          /\ result[j].by = result[k].by

NoToolCallBeforeTheHandshake ==
    \A i \in DOMAIN result :
       result[i].type = "send" /\ result[i].method = "tools/call" =>
           \E k \in 1..(i - 1) : HandshakeDone(k)

HandshakeNeverSentAgain ==
    \A k \in DOMAIN result :
       HandshakeDone(k) =>
           \A i \in (k + 1)..Len(result) :
              ~(result[i].type = "send" /\ result[i].method \in HandshakeMethods)

FailedHandshakeLeavesTheClientUninitialised ==
    \A f \in DOMAIN result :
       result[f].type = "fail" /\ result[f].method \in HandshakeMethods =>
           /\ ~result[f].initialized
           /\ \A i \in DOMAIN result :
                 ~(result[i].type = "send" /\ result[i].method = "tools/call"
                       /\ result[i].by = result[f].by)
           /\ \A s \in (f + 1)..Len(result) :
                 result[s].type = "call" /\ ~result[s].initialized =>
                     /\ s < Len(result)
                     /\ result[s + 1] = McpEvent("send", "initialize", result[s].by,
                                                 [initialized |-> FALSE])

\* C29: on one RemoteFigmaMcpClient no tools/call request is sent before an
\* initialize request and the following initialized notification have both
\* succeeded; once they have, the handshake is never sent again; and if a
\* handshake request fails the client stays uninitialised, the failing call sends
\* no tools/call, and the next call starts the handshake again.
C29_HandshakeBeforeToolCallsAndOnlyOnce ==
    /\ NoToolCallBeforeTheHandshake
    /\ HandshakeNeverSentAgain
    /\ FailedHandshakeLeavesTheClientUninitialised

\* the same for the calls of which none starts while another one is running
C29_HandshakeWhenNoCallsOverlap ==
    ~stood => C29_HandshakeBeforeToolCallsAndOnlyOnce

\* no tools/call request precedes the first completed handshake, overlapping
\* calls or not
C29_ToolCallsFollowAHandshake == NoToolCallBeforeTheHandshake

\* a call has sent the notification after the handshake of another call was
\* complete
C29_HandshakeSentTwice ==
    \E k \in DOMAIN result :
       /\ HandshakeDone(k)
       /\ \E i \in (k + 1)..Len(result) :
             /\ result[i].type = "send"
             /\ result[i].method = "notifications/initialized"
             /\ result[i].by # result[k].by

\* three calls one after the other: the handshake of the first fails, the second
\* completes it and calls a tool, the third calls a tool without a handshake
C29_ThreeCallsInTurn ==
    /\ ~stood
    /\ Len(current) = 3
    /\ \E f \in DOMAIN result :
          result[f].type = "fail" /\ result[f].method \in HandshakeMethods
             /\ result[f].by = 1
    /\ \E k \in DOMAIN result : HandshakeDone(k) /\ result[k].by = 2
    /\ \E i \in DOMAIN result :
          result[i].type = "send" /\ result[i].method = "tools/call" /\ result[i].by = 3

(***************************************************************************)
(* SpecPolicy: shouldFailBuild on every list of findings within the bound. *)
(***************************************************************************)
\* The annotation of the second test of test/severity-policy.test.ts.
TestSuppressed ==
    [kind |-> "suppression", ruleId |-> "WCAG-2.5.8-target-size-minimum",
     targetId |-> "2:2", reason |-> <<"w">>, expiresOn |-> "2027-01-01",
     matchedAt |-> "2026-02-09T00:00:00.000Z"]

PolicyFindings ==
    [id : {"f1"}, ruleId : {"WCAG-2.5.8-target-size-minimum"},
     severity : Severities, status : Statuses,
     targetRef : {[nodeId |-> "2:2"]},
     suppressed : {Undefined, TestSuppressed}]

InitPolicy ==
    /\ pc = "policy"
    /\ result = NotCalled
    /\ findings \in SeqUpTo(PolicyFindings, MaxFindings)
    /\ failOn \in SUBSET Severities
    /\ PolicyIdle
    /\ ResolverIdle
    /\ RulesIdle
    /\ IntakeIdle

ShouldFailBuildCall ==
    /\ pc = "policy"
    /\ result' = [kind |-> "boolean", value |-> shouldFailBuild(findings, failOn)]
    /\ pc' = "policy-done"
    /\ UNCHANGED <<findings, failOn, suppressions, now, target, subject, context, payload,
                   screenshot, current, stood>>

NextPolicy == ShouldFailBuildCall

SpecPolicy == InitPolicy /\ [][NextPolicy]_vars

\* C1: shouldFailBuild is true exactly when some finding is failed, carries no
\* suppressed annotation and has a severity in failOn; when every finding is
\* needs-manual-review or suppressed the answer is false whatever the severities.
C1_GateIffUnsuppressedFailure ==
    pc = "policy-done" =>
        /\ result.value =
              (Cardinality({i \in DOMAIN findings :
                    /\ findings[i].status = "failed"
                    /\ findings[i].suppressed = Undefined
                    /\ findings[i].severity \in failOn}) >= 1)
        /\ (\A i \in DOMAIN findings :
                \/ findings[i].status = "needs-manual-review"
                \/ findings[i].suppressed # Undefined)
           => result.value = FALSE

\* The gate answered false although a suppressed failed finding and a
\* needs-manual-review finding both have a severity in failOn.
C1_Witness ==
    /\ pc = "policy-done"
    /\ result.value = FALSE
    /\ \E i, j \in DOMAIN findings :
          /\ findings[i].status = "failed"
          /\ findings[i].suppressed # Undefined
          /\ findings[i].severity \in failOn
          /\ findings[j].status = "needs-manual-review"
          /\ findings[j].suppressed = Undefined
          /\ findings[j].severity \in failOn

(***************************************************************************)
(* SpecSupp: applySuppressions on every list of findings and suppressions  *)
(* within the bounds.                                                      *)
(***************************************************************************)
\* Findings as the rules create them: no `suppressed` field yet.
SuppFindings ==
    {[id |-> "f" \o r[3], ruleId |-> r[1], severity |-> r[2], status |-> "failed",
      targetRef |-> [nodeId |-> r[3]], suppressed |-> Undefined] :
        r \in {<<"WCAG-1.4.3-text-contrast-minimum", "critical", "2:1">>,
               <<"WCAG-1.4.3-text-contrast-minimum", "critical", "2:2">>,
               <<"WCAG-2.5.8-target-size-minimum", "blocker", "2:1">>}}

\* reason and expiresOn of the suppressions tried: valid ones (the second needs
\* trimming, and expires on the first `now`), and every way of being invalid.
SuppReasonExpiry ==
    {<<<<"w">>, "2027-01-01">>,
     <<<<" ", "w", " ">>, "2026-02-09">>,
     <<<<"w">>, "2025-01-01">>,
     <<<<"w">>, "next week">>,
     <<<<>>, "2027-01-01">>,
     <<<<" ", "\t">>, "next week">>}

SuppInputs ==
    {[kind |-> "suppression", ruleId |-> k[1], targetId |-> k[2],
      reason |-> v[1], expiresOn |-> v[2]] :
        k \in {<<"WCAG-1.4.3-text-contrast-minimum", "*">>,
               <<"WCAG-1.4.3-text-contrast-minimum", "2:1">>,
               <<"WCAG-2.5.8-target-size-minimum", "2:1">>},
        v \in SuppReasonExpiry}

InitSupp ==
    /\ pc = "supp"
    /\ result = NotCalled
    /\ findings \in SeqUpTo(SuppFindings, MaxFindings)
    /\ suppressions \in SeqUpTo(SuppInputs, MaxSuppressions)
    /\ now \in {NewDate("2026-02-09"), NewDate("2027-01-01")}
    /\ failOn = {}
    /\ ResolverIdle
    /\ RulesIdle
    /\ IntakeIdle

ApplySuppressionsCall ==
    /\ pc = "supp"
    /\ result' = applySuppressions(findings, suppressions, now)
    /\ pc' = "supp-done"
    /\ UNCHANGED <<findings, failOn, suppressions, now, target, subject, context, payload,
                   screenshot, current, stood>>

NextSupp == ApplySuppressionsCall

SpecSupp == InitSupp /\ [][NextSupp]_vars

\* What the claims call an invalid suppression, stated on the input alone.
BlankReason(s) == \A k \in DOMAIN s.reason : s.reason[k] \in Whitespace
Unparseable(s) == s.expiresOn \notin {"2025-01-01", "2026-02-09", "2027-01-01"}
InThePast(s) == ~Unparseable(s) /\ NewDate(s.expiresOn).time < now.time
Invalid(s) == BlankReason(s) \/ Unparseable(s) \/ InThePast(s)

InvalidIdx == {i \in DOMAIN suppressions : Invalid(suppressions[i])}
ValidMatchIdx(f) ==
    {i \in DOMAIN suppressions :
        /\ ~Invalid(suppressions[i])
        /\ suppressions[i].ruleId = f.ruleId
        /\ suppressions[i].targetId \in {"*", f.targetRef.nodeId}}

\* The 0-based position, ruleId/targetId or expiresOn a warning names.
WarningNames(w, i) ==
    LET s == suppressions[i]
    IN  CASE BlankReason(s) -> w = [kind |-> "reason-empty", idx |-> i - 1]
          [] ~BlankReason(s) /\ Unparseable(s) ->
                w = [kind |-> "invalid-expiresOn", ruleId |-> s.ruleId,
                     targetId |-> s.targetId]
          [] OTHER ->
                w = [kind |-> "expired", ruleId |-> s.ruleId, targetId |-> s.targetId,
                     expiresOn |-> s.expiresOn]

\* C2: each suppression with a blank reason, an unparseable expiresOn or an
\* expiresOn before `now` yields exactly one warning (the warnings are those of
\* the invalid suppressions, in list order) and is applied to no finding; valid
\* suppressions yield none; a finding no valid suppression matches stays
\* unsuppressed.
C2_InvalidSuppressionsWarnOnceAndNeverApply ==
    pc = "supp-done" =>
        /\ Len(result.warnings) = Cardinality(InvalidIdx)
        /\ \A k \in DOMAIN result.warnings :
              \E i \in InvalidIdx :
                 /\ Cardinality({j \in InvalidIdx : j <= i}) = k
                 /\ WarningNames(result.warnings[k], i)
        /\ \A n \in DOMAIN result.findings :
              LET a == result.findings[n].suppressed
              IN  /\ ValidMatchIdx(findings[n]) = {} => a = Undefined
                  /\ a # Undefined =>
                        \E i \in ValidMatchIdx(findings[n]) :
                           /\ a.reason = suppressions[i].reason
                           /\ a.expiresOn = suppressions[i].expiresOn
                           /\ a.targetId = suppressions[i].targetId

\* A finding matched by an expired suppression only: one warning, no annotation.
C2_Witness ==
    /\ pc = "supp-done"
    /\ \E n \in DOMAIN findings, i \in InvalidIdx :
          /\ InThePast(suppressions[i]) /\ ~BlankReason(suppressions[i])
          /\ suppressions[i].ruleId = findings[n].ruleId
          /\ suppressions[i].targetId = findings[n].targetRef.nodeId
          /\ result.findings[n].suppressed = Undefined
    /\ \E i \in InvalidIdx : BlankReason(suppressions[i]) /\ Unparseable(suppressions[i])
    /\ Len(result.warnings) = 2

\* C3: the findings come back in the same number and order; a finding carries
\* `suppressed` exactly when a valid suppression matches it, the annotation
\* being the first match in list order stamped with `now`; every other field,
\* and the list handed in, is as before.
C3_SuppressedIffFirstActiveMatch ==
    pc = "supp-done" =>
        /\ Len(result.findings) = Len(findings)
        /\ \A n \in DOMAIN findings :
              LET before == findings[n]
                  after == result.findings[n]
                  hits == ValidMatchIdx(before)
              IN  /\ \A f \in {"id", "ruleId", "severity", "status", "targetRef"} :
                        after[f] = before[f]
                  /\ DOMAIN after = DOMAIN before
                  /\ (after.suppressed # Undefined) = (hits # {})
                  /\ hits # {} =>
                        LET first == CHOOSE i \in hits : \A j \in hits : i <= j
                        IN  after.suppressed =
                               [kind |-> "suppression",
                                ruleId |-> suppressions[first].ruleId,
                                targetId |-> suppressions[first].targetId,
                                reason |-> suppressions[first].reason,
                                expiresOn |-> suppressions[first].expiresOn,
                                matchedAt |-> IF now.time = 9536
                                              THEN "2026-02-09T00:00:00.000Z"
                                              ELSE "2027-01-01T00:00:00.000Z"]

\* Two findings, the first left alone and the second suppressed by the first of
\* two valid suppressions that both match it.
C3_Witness ==
    /\ pc = "supp-done"
    /\ Len(findings) = 2
    /\ result.findings[1].suppressed = Undefined
    /\ result.findings[2].suppressed # Undefined
    /\ Cardinality(ValidMatchIdx(findings[2])) = 2
    /\ suppressions[1] # suppressions[2]

====
